---------------------------- MODULE Spec2Model ----------------------------
(***************************************************************************)
(* Recovery-and-reconciliation core of the lab-document extractor          *)
(* (src/pdf_extractor_restructured.py, class RestructuredPDFExtractor).    *)
(*                                                                         *)
(* A text is a sequence of one-character strings, indexed from 1 (Python   *)
(* indexes from 0; every position below is the Python position plus one).  *)
(* Python's loops over a text are written in closed form (counts, least and *)
(* greatest positions) so that evaluation does not recurse once per         *)
(* character; each definition says which loop it stands for.               *)
(***************************************************************************)
EXTENDS Integers, Sequences, FiniteSets, TLC

----------------------------------------------------------------------------
(* Characters and elementary text operations                                *)

\* json.decoder WHITESPACE: the blanks json.loads skips between tokens.
JsonWS == {" ", "\t", "\n", "\r"}

\* str.strip() and the regex class \s.
PyWS == {" ", "\t", "\n", "\r", "\f"}

\* The grave accent of a markdown fence.  The character cannot be written
\* in a string of this module; the tilde, which no text here contains,
\* stands for it.
Tick == "~"

Digit == {"0", "1", "2", "3", "4", "5", "6", "7", "8", "9"}

\* Characters json.decoder accepts after a backslash inside a string (the
\* texts considered hold no \b and no \uXXXX escape).
EscChars == {"\"", "\\", "/", "f", "n", "r", "t"}

\* Python's None, as returned by the cascade stages that fail: a value no
\* text equals (a text holds one-character strings only).
None == <<"None">>

Min(S) == CHOOSE x \in S : \A y \in S : x <= y

Max(S) == 0 - Min({0 - x : x \in S})

\* sorted(S) for a finite set of integers.
SortedSeq(S) ==
    [k \in 1..Cardinality(S) |-> CHOOSE x \in S : Cardinality({y \in S : y < x}) = k - 1]

\* s[a-1:b] in Python terms: the characters at positions a..b.
Slice(s, a, b) == IF a > b THEN <<>> ELSE SubSeq(s, a, b)

\* str.count(c)
Count(s, c) == Cardinality({i \in 1..Len(s) : s[i] = c})

\* c * n for a one-character string c (the empty text when n <= 0).
Repeat(c, n) == [i \in 1..(IF n > 0 THEN n ELSE 0) |-> c]

\* s.startswith(w, i-1): w occurs in s at position i.
OccursAt(s, w, i) ==
    /\ i >= 1
    /\ i + Len(w) - 1 <= Len(s)
    /\ \A k \in 1..Len(w) : s[i + k - 1] = w[k]

\* str.find(w): the least position of w in s, 0 when there is none
\* (Python's -1).
Find(s, w) ==
    LET P == {i \in 1..Len(s) : OccursAt(s, w, i)}
    IN  IF P = {} THEN 0 ELSE Min(P)

\* str.rfind(c) for one character: the greatest position, 0 when none.
RFind(s, c) ==
    LET P == {i \in 1..Len(s) : s[i] = c}
    IN  IF P = {} THEN 0 ELSE Max(P)

\* The text s without the characters at the positions in R.
DropAt(s, R) ==
    IF R = {} THEN s
    ELSE LET m == Cardinality(R \cap (1..Len(s)))
             old(k) == CHOOSE x \in k..(k + m) :
                           x \notin R /\ x - Cardinality({r \in R : r < x}) = k
         IN  [k \in 1..(Len(s) - m) |-> s[old(k)]]

\* The text s with a backslash inserted before every position in Q.
EscapeAt(s, Q) ==
    IF Q = {} THEN s
    ELSE LET m == Cardinality(Q)
             new(x) == x + Cardinality({q \in Q : q <= x})
             near(p) == {x \in (p - m)..p : x >= 1 /\ x <= Len(s) /\ new(x) = p}
         IN  [p \in 1..(Len(s) + m) |->
                 IF near(p) # {} THEN s[CHOOSE x \in near(p) : TRUE] ELSE "\\"]

\* str.strip()
Strip(s) ==
    LET n == Len(s)
        Solid(k) == s[k] \notin PyWS
    IN  IF \A k \in 1..n : ~Solid(k) THEN <<>>
        ELSE SubSeq(s, CHOOSE k \in 1..n : Solid(k) /\ \A m \in 1..(k - 1) : ~Solid(m),
                       n - (CHOOSE t \in 0..(n - 1) :
                               Solid(n - t) /\ \A u \in 0..(t - 1) : ~Solid(n - u)))

----------------------------------------------------------------------------
(* String literals of the source, as texts                                  *)

\* 'extracted_fields'
k_extracted_fields == <<"e", "x", "t", "r", "a", "c", "t", "e", "d", "_", "f", "i", "e", "l", "d", "s">>

\* 'key'
k_key == <<"k", "e", "y">>

\* 'value'
k_value == <<"v", "a", "l", "u", "e">>

\* 'type'
k_type == <<"t", "y", "p", "e">>

\* 'page'
k_page == <<"p", "a", "g", "e">>

\* 'method'
k_method == <<"m", "e", "t", "h", "o", "d">>

\* 'sample_id'
k_sample_id == <<"s", "a", "m", "p", "l", "e", "_", "i", "d">>

\* 'analysis_name'
k_analysis_name == <<"a", "n", "a", "l", "y", "s", "i", "s", "_", "n", "a", "m", "e">>

\* 'checkbox_type'
k_checkbox_type == <<"c", "h", "e", "c", "k", "b", "o", "x", "_", "t", "y", "p", "e">>

\* 'sample_analysis_mapping'
k_sample_analysis_mapping == <<"s", "a", "m", "p", "l", "e", "_", "a", "n", "a", "l", "y", "s", "i", "s", "_", "m", "a", "p", "p", "i", "n", "g">>

\* 'sample_ids'
k_sample_ids == <<"s", "a", "m", "p", "l", "e", "_", "i", "d", "s">>

\* 'analysis_request'
k_analysis_request == <<"a", "n", "a", "l", "y", "s", "i", "s", "_", "r", "e", "q", "u", "e", "s", "t">>

\* 'sample_analysis_map'
k_sample_analysis_map == <<"s", "a", "m", "p", "l", "e", "_", "a", "n", "a", "l", "y", "s", "i", "s", "_", "m", "a", "p">>

\* 'AI Vision'
v_AI_Vision == <<"A", "I", " ", "V", "i", "s", "i", "o", "n">>

\* 'checkbox'
v_checkbox == <<"c", "h", "e", "c", "k", "b", "o", "x">>

\* 'analysis_checkbox'
v_analysis_checkbox == <<"a", "n", "a", "l", "y", "s", "i", "s", "_", "c", "h", "e", "c", "k", "b", "o", "x">>

\* 'sample_field'
v_sample_field == <<"s", "a", "m", "p", "l", "e", "_", "f", "i", "e", "l", "d">>

\* 'checked'
v_checked == <<"c", "h", "e", "c", "k", "e", "d">>

\* 'unchecked'
v_unchecked == <<"u", "n", "c", "h", "e", "c", "k", "e", "d">>

\* 'NIL'
v_NIL == <<"N", "I", "L">>

\* 'other'
v_other == <<"o", "t", "h", "e", "r">>

\* 'Unknown'
v_Unknown == <<"U", "n", "k", "n", "o", "w", "n">>
----------------------------------------------------------------------------
(* String literals of the post-processing loop                              *)

\* ['nil', 'n/a', '-', '']
UncheckedWords ==
    {<<"n", "i", "l">>,
     <<"n", "/", "a">>,
     <<"-">>,
     <<>>}

\* ['checked', 'x', 'yes', 'y'] (the check mark of the source list is outside the alphabet)
CheckedWords ==
    {<<"c", "h", "e", "c", "k", "e", "d">>,
     <<"x">>,
     <<"y", "e", "s">>,
     <<"y">>}

\* ['sample_id', 'customer_sample_id', 'customer sample id']
SampleIdKeys ==
    {<<"s", "a", "m", "p", "l", "e", "_", "i", "d">>,
     <<"c", "u", "s", "t", "o", "m", "e", "r", "_", "s", "a", "m", "p", "l", "e", "_", "i", "d">>,
     <<"c", "u", "s", "t", "o", "m", "e", "r", " ", "s", "a", "m", "p", "l", "e", " ", "i", "d">>}

\* '_sample_id'
s_sample_id_suffix == <<"_", "s", "a", "m", "p", "l", "e", "_", "i", "d">>

\* ['level ii', 'level iii', 'level iv', 'equis']
DeliverableKeywords ==
    {<<"l", "e", "v", "e", "l", " ", "i", "i">>,
     <<"l", "e", "v", "e", "l", " ", "i", "i", "i">>,
     <<"l", "e", "v", "e", "l", " ", "i", "v">>,
     <<"e", "q", "u", "i", "s">>}

\* ['same day', '1 day', '2 day', '3 day']
RushKeywords ==
    {<<"s", "a", "m", "e", " ", "d", "a", "y">>,
     <<"1", " ", "d", "a", "y">>,
     <<"2", " ", "d", "a", "y">>,
     <<"3", " ", "d", "a", "y">>}

\* ['AM', 'PT', 'MT', 'CT', 'ET']
TimezoneKeys ==
    {<<"A", "M">>,
     <<"P", "T">>,
     <<"M", "T">>,
     <<"C", "T">>,
     <<"E", "T">>}

\* ['yes', 'no']
ReportableKeys ==
    {<<"y", "e", "s">>,
     <<"n", "o">>}

\* 'data_deliverables'
w_data_deliverables == <<"d", "a", "t", "a", "_", "d", "e", "l", "i", "v", "e", "r", "a", "b", "l", "e", "s">>

\* 'rush'
w_rush == <<"r", "u", "s", "h">>

\* 'timezone'
w_timezone == <<"t", "i", "m", "e", "z", "o", "n", "e">>

\* 'reportable'
w_reportable == <<"r", "e", "p", "o", "r", "t", "a", "b", "l", "e">>

\* 'hazard'
w_hazard == <<"h", "a", "z", "a", "r", "d">>

\* 'technical'
w_technical == <<"t", "e", "c", "h", "n", "i", "c", "a", "l">>

\* 'administrative'
w_administrative == <<"a", "d", "m", "i", "n", "i", "s", "t", "r", "a", "t", "i", "v", "e">>

----------------------------------------------------------------------------
(* json.loads                                                               *)
(*                                                                          *)
(* A parsed value is a record [t, s]: t is the Python type ("dict", "list", *)
(* "str", "num", "true", "false", "null") and s its content: the characters *)
(* of a string or of a number, the items of a list, the <<key, value>>      *)
(* pairs of a dict in insertion order.                                      *)

JStr(chars) == [t |-> "str", s |-> chars]

JNum(chars) == [t |-> "num", s |-> chars]

JLit(name) == [t |-> name, s |-> <<>>]

JList(items) == [t |-> "list", s |-> items]

JDict(pairs) == [t |-> "dict", s |-> pairs]

\* What the parser yields when json.loads raises JSONDecodeError.
ParseError == [ok |-> FALSE, v |-> JLit("null")]

Parsed(v) == [ok |-> TRUE, v |-> v]

\* The number of consecutive backslashes that end just before position i.
RECURSIVE Backslashes(_, _)
Backslashes(s, i) ==
    IF i <= 1 \/ s[i - 1] # "\\" THEN 0 ELSE 1 + Backslashes(s, i - 1)

\* The scanner's view of a text: U the quotes that open or close a string
\* (py_scanstring ends a string at the first quote no backslash escapes),
\* ins[i] whether position i lies inside a string (its closing quote
\* included), op and cl the brackets outside strings, dep[i] the nesting
\* depth just before position i.
Lex(s) ==
    LET n   == Len(s)
        U   == {i \in 1..n : s[i] = "\"" /\ Backslashes(s, i) % 2 = 0}
        ins == [i \in 1..n |-> Cardinality({u \in U : u < i}) % 2 = 1]
        op  == {i \in 1..n : s[i] \in {"{", "["} /\ ~ins[i]}
        cl  == {i \in 1..n : s[i] \in {"}", "]"} /\ ~ins[i]}
        dep == [i \in 1..(n + 1) |->
                   Cardinality({k \in op : k < i}) - Cardinality({k \in cl : k < i})]
    IN  [U |-> U, ins |-> ins, op |-> op, cl |-> cl, dep |-> dep]

\* Every string of the text is one json.decoder accepts: terminated, free of
\* control characters, every backslash escape a known one; and no backslash
\* stands outside a string.
LexOk(s, L) ==
    /\ Cardinality(L.U) % 2 = 0
    /\ \A i \in 1..Len(s) :
          /\ s[i] = "\\" => L.ins[i]
          /\ (L.ins[i] /\ i \notin L.U) => s[i] \notin {"\n", "\t", "\r", "\f"}
          /\ (L.ins[i] /\ s[i] # "\\" /\ Backslashes(s, i) % 2 = 1) =>
                s[i] \in EscChars

\* The characters an escape sequence stands for.
Unescape(c) ==
    CASE c = "n" -> "\n"
      [] c = "t" -> "\t"
      [] c = "r" -> "\r"
      [] c = "f" -> "\f"
      [] OTHER -> c

\* The content of the string whose characters lie at a..b (quotes excluded):
\* the escaping backslashes dropped, the escaped characters decoded.
Decode(s, a, b) ==
    LET esc == {i \in a..b : s[i] = "\\" /\ Backslashes(s, i) % 2 = 0}
        raw == [k \in 1..(b - a + 1) |->
                   IF (a + k - 2) \in esc THEN Unescape(s[a + k - 1]) ELSE s[a + k - 1]]
    IN  DropAt(raw, {e - a + 1 : e \in esc})

\* The span a..b without the JSON whitespace at its ends, as <<first, last>>.
Trim(s, a, b) ==
    LET Solid(k) == s[k] \notin JsonWS
    IN  IF \A k \in a..b : ~Solid(k) THEN <<b + 1, b>>
        ELSE <<CHOOSE k \in a..b : Solid(k) /\ \A m \in a..(k - 1) : ~Solid(m),
               b - (CHOOSE t \in 0..(b - a) :
                       Solid(b - t) /\ \A u \in 0..(t - 1) : ~Solid(b - u))>>

\* The end of the run of digits that starts at position i (i - 1: no digit).
DigitsEnd(t, i) ==
    Max({k \in (i - 1)..Len(t) : \A m \in i..k : t[m] \in Digit})

\* json.scanner NUMBER_RE matches the whole of t: -?(0|[1-9]\d*)(\.\d+)?([eE][-+]?\d+)?
IsNumber(t) ==
    LET n == Len(t)
        \* st: the first digit; ie, fe, xe: the ends of the integer, the
        \* fraction and the exponent
        Whole(st) == DigitsEnd(t, st)
        Frac(ie) == IF ie < n /\ t[ie + 1] = "." THEN DigitsEnd(t, ie + 2) ELSE ie
        ExpStart(fe) == IF fe + 1 < n /\ t[fe + 2] \in {"+", "-"} THEN fe + 3 ELSE fe + 2
        Exp(fe, xs) == IF fe < n /\ t[fe + 1] \in {"e", "E"} THEN DigitsEnd(t, xs) ELSE fe
        Matches(st, ie, fe, xs, xe) ==
            /\ ie >= st
            /\ t[st] = "0" => ie = st
            /\ (ie < n /\ t[ie + 1] = ".") => fe >= ie + 2
            /\ (fe < n /\ t[fe + 1] \in {"e", "E"}) => xe >= xs
            /\ xe = n
        From4(st, ie, fe, xs) == Matches(st, ie, fe, xs, Exp(fe, xs))
        From3(st, ie, fe) == From4(st, ie, fe, ExpStart(fe))
        From2(st, ie) == From3(st, ie, Frac(ie))
        From1(st) == From2(st, Whole(st))
    IN  From1(IF n >= 1 /\ t[1] = "-" THEN 2 ELSE 1)

\* A number or one of the constants json.scanner knows.
Scalar(t) ==
    IF t = <<"t", "r", "u", "e">> THEN Parsed(JLit("true"))
    ELSE IF t = <<"f", "a", "l", "s", "e">> THEN Parsed(JLit("false"))
    ELSE IF t = <<"n", "u", "l", "l">> THEN Parsed(JLit("null"))
    ELSE IF t \in {<<"N", "a", "N">>, <<"I", "n", "f", "i", "n", "i", "t", "y">>,
                   <<"-", "I", "n", "f", "i", "n", "i", "t", "y">>} THEN Parsed(JNum(t))
    ELSE IF IsNumber(t) THEN Parsed(JNum(t))
    ELSE ParseError

\* The spans between the separators at the sorted positions C inside a..b.
Spans(C, a, b) ==
    LET cs == SortedSeq(C)
        m  == Len(cs)
    IN  [k \in 1..(m + 1) |->
            <<IF k = 1 THEN a ELSE cs[k - 1] + 1, IF k = m + 1 THEN b ELSE cs[k] - 1>>]

\* dict(pairs): a key set twice keeps its first place and its last value.
MakeDict(pairs) ==
    LET n    == Len(pairs)
        keep == {i \in 1..n : \A j \in 1..(i - 1) : pairs[j][1] # pairs[i][1]}
        last(i) == Max({j \in i..n : pairs[j][1] = pairs[i][1]})
        ks   == SortedSeq(keep)
    IN  JDict([k \in 1..Len(ks) |-> <<pairs[ks[k]][1], pairs[last(ks[k])][2]>>])

\* The value written at i..j of s (whitespace around it allowed), as
\* JSONDecoder.raw_decode reads it: json.scanner.py_make_scanner,
\* json.decoder.JSONObject and JSONArray.
RECURSIVE ParseSpan(_, _, _, _)
ParseSpan(s, L, i, j) ==
    LET \* the quote that ends the string opened at q
        Quote(q) == Min({u \in L.U : u > q} \cup {Len(s) + 1})
        \* the bracket that closes the one at a
        Close(a) == Min({k \in L.cl : k > a /\ L.dep[k + 1] = L.dep[a]} \cup {Len(s) + 1})
        Oks(xs)  == \A k \in 1..Len(xs) : xs[k].ok
        Vals(xs) == [k \in 1..Len(xs) |-> xs[k].v]
        \* "key" : value, the key at ka..kb, the colon looked for at c
        Pair(ka, kb, c, hi) ==
            IF ka <= hi /\ s[ka] = "\"" /\ kb < hi /\ c <= hi /\ s[c] = ":"
            THEN LET val == ParseSpan(s, L, c + 1, hi)
                 IN  [ok |-> val.ok, v |-> <<Decode(s, ka + 1, kb - 1), val.v>>]
            ELSE [ok |-> FALSE, v |-> <<>>]
        Keyed(ka, hi) == Pair(ka, Quote(ka), Trim(s, Quote(ka) + 1, hi)[1], hi)
        Member(m)  == Keyed(Trim(s, m[1], m[2])[1], Trim(s, m[1], m[2])[2])
        ListOf(xs) == IF Oks(xs) THEN Parsed(JList(Vals(xs))) ELSE ParseError
        DictOf(xs) == IF Oks(xs) THEN Parsed(MakeDict(Vals(xs))) ELSE ParseError
        Filled(a, sp) ==
            IF s[a] = "["
            THEN ListOf([k \in 1..Len(sp) |-> ParseSpan(s, L, sp[k][1], sp[k][2])])
            ELSE DictOf([k \in 1..Len(sp) |-> Member(sp[k])])
        \* C: the commas that part the items of the container at a..b
        Container(a, b, C) ==
            IF Close(a) # b \/ s[b] # (IF s[a] = "{" THEN "}" ELSE "]") THEN ParseError
            ELSE IF C = {} /\ Trim(s, a + 1, b - 1)[1] > b - 1
            THEN Parsed(IF s[a] = "{" THEN JDict(<<>>) ELSE JList(<<>>))
            ELSE Filled(a, Spans(C, a + 1, b - 1))
        Value(a, b) ==
            IF a > b THEN ParseError
            ELSE IF s[a] = "\"" THEN
                IF b > a /\ b = Quote(a)
                THEN Parsed(JStr(Decode(s, a + 1, b - 1)))
                ELSE ParseError
            ELSE IF s[a] \in {"{", "["} THEN
                Container(a, b, {c \in (a + 1)..(b - 1) :
                                    s[c] = "," /\ ~L.ins[c] /\ L.dep[c] = L.dep[a] + 1})
            ELSE Scalar(SubSeq(s, a, b))
    IN  Value(Trim(s, i, j)[1], Trim(s, i, j)[2])

\* json.loads(s): the value s encodes, or the JSONDecodeError.
ParseJson(s) ==
    LET Scanned(L) == IF LexOk(s, L) THEN ParseSpan(s, L, 1, Len(s)) ELSE ParseError
    IN  Scanned(Lex(s))

\* try: json.loads(t); return t / except: the stage has nothing to return.
IfParses(t) == IF ParseJson(t).ok THEN t ELSE None
----------------------------------------------------------------------------
(* json.dumps                                                               *)

\* parts[lo] sep parts[lo+1] sep ... parts[hi]  (str.join over parts[lo..hi])
RECURSIVE Join(_, _, _, _)
Join(parts, sep, lo, hi) ==
    IF lo > hi THEN <<>>
    ELSE IF lo = hi THEN parts[lo]
    ELSE LET mid == (lo + hi) \div 2
         IN  Join(parts, sep, lo, mid) \o sep \o Join(parts, sep, mid + 1, hi)

\* json.encoder.py_encode_basestring_ascii: the string between quotes, the
\* quote, the backslash and the control characters escaped.
DumpString(chars) ==
    LET ctl(c) == CASE c = "\n" -> "n" [] c = "\t" -> "t" [] c = "\r" -> "r"
                    [] c = "\f" -> "f" [] OTHER -> c
        Q      == {i \in 1..Len(chars) : chars[i] \in {"\"", "\\", "\n", "\t", "\r", "\f"}}
    IN  <<"\"">> \o EscapeAt([i \in 1..Len(chars) |-> ctl(chars[i])], Q) \o <<"\"">>

\* json.dumps(v, separators=(item_separator, key_separator)).  A number
\* keeps the digits it was read from (the texts considered write integers
\* the way Python prints them).
RECURSIVE Encode(_, _, _)
Encode(v, item_separator, key_separator) ==
    CASE v.t = "str"   -> DumpString(v.s)
      [] v.t = "num"   -> v.s
      [] v.t = "true"  -> <<"t", "r", "u", "e">>
      [] v.t = "false" -> <<"f", "a", "l", "s", "e">>
      [] v.t = "null"  -> <<"n", "u", "l", "l">>
      [] v.t = "list"  ->
            <<"[">> \o Join([k \in 1..Len(v.s) |->
                               Encode(v.s[k], item_separator, key_separator)],
                            item_separator, 1, Len(v.s))
                    \o <<"]">>
      [] v.t = "dict"  ->
            <<"{">> \o Join([k \in 1..Len(v.s) |->
                               DumpString(v.s[k][1]) \o key_separator
                                 \o Encode(v.s[k][2], item_separator, key_separator)],
                            item_separator, 1, Len(v.s))
                    \o <<"}">>

\* json.dumps(v): the default separators are ", " and ": ".
Dumps(v) == Encode(v, <<",", " ">>, <<":", " ">>)

----------------------------------------------------------------------------
(* dict and value helpers used by the extractor                             *)

\* key in d  (d a dict)
HasKey(d, key) == \E k \in 1..Len(d.s) : d.s[k][1] = key

\* d[key]  (key in d)
Item(d, key) == d.s[CHOOSE k \in 1..Len(d.s) : d.s[k][1] = key][2]

\* d.get(key, default)
Get(d, key, default) == IF HasKey(d, key) THEN Item(d, key) ELSE default

\* d[key] = v: a new key goes last, a known key keeps its place.
SetItem(d, key, v) ==
    IF HasKey(d, key)
    THEN JDict([k \in 1..Len(d.s) |-> IF d.s[k][1] = key THEN <<key, v>> ELSE d.s[k]])
    ELSE JDict(Append(d.s, <<key, v>>))

\* d.setdefault(key, v)
SetDefault(d, key, v) == IF HasKey(d, key) THEN d ELSE SetItem(d, key, v)

----------------------------------------------------------------------------
(* The recovery cascade: text-level stages                                  *)

\* re.sub of the pattern: three backticks, json, \s*  (each match removed)
RemoveJsonFence(s) ==
    LET n     == Len(s)
        fence == <<Tick, Tick, Tick, "j", "s", "o", "n">>
        Occ   == {p \in 1..n : s[p] = Tick /\ OccursAt(s, fence, p)}
        wsEnd(p) == Max({k \in (p + 6)..n : \A m \in (p + 7)..k : s[m] \in PyWS})
    IN  DropAt(s, UNION {p..wsEnd(p) : p \in Occ})

\* re.sub of the pattern: three backticks, \s*, $  (the match removed)
RemoveEndFence(s) ==
    LET n == Len(s)
        P == {p \in 1..n : /\ s[p] = Tick
                           /\ OccursAt(s, <<Tick, Tick, Tick>>, p)
                           /\ \A k \in (p + 3)..n : s[k] \in PyWS}
    IN  IF P = {} THEN s ELSE Slice(s, 1, Min(P) - 1)

\* The three lines every repair stage starts with: both fence patterns
\* removed, then str.strip().
StripMarkdown(s) == Strip(RemoveEndFence(RemoveJsonFence(s)))

\* re.sub(r',(\s*[}\]])', r'\1', s)
RemoveTrailingCommas(s) ==
    LET n == Len(s)
        R == {i \in 1..n : /\ s[i] = ","
                           /\ \E k \in (i + 1)..n :
                                 /\ s[k] \in {"}", "]"}
                                 /\ \A m \in (i + 1)..(k - 1) : s[m] \in PyWS}
    IN  DropAt(s, R)

\* re.sub(r'(?<!\\)"(?=.*":)', r'\\"', s): a backslash goes before every
\* quote that no backslash precedes and that is followed, on its line, by
\* a quote and a colon.
EscapeQuotes(s) ==
    LET n  == Len(s)
        QC == {j \in 1..(n - 1) : s[j] = "\"" /\ s[j + 1] = ":"}
        NL == {m \in 1..n : s[m] = "\n"}
        Q  == {i \in 1..n : /\ s[i] = "\""
                            /\ (i = 1 \/ s[i - 1] # "\\")
                            /\ \E j \in QC : j > i /\ ~\E m \in NL : i < m /\ m < j}
    IN  EscapeAt(s, Q)

\* json_str += '}' * open_braces; json_str += ']' * open_brackets
CloseOpen(s) ==
    s \o Repeat("}", Count(s, "{") - Count(s, "}"))
      \o Repeat("]", Count(s, "[") - Count(s, "]"))

\* The text repair_json tests and returns.
RepairedText(s) == CloseOpen(EscapeQuotes(RemoveTrailingCommas(StripMarkdown(s))))

repair_json(s) == IfParses(RepairedText(s))

\* The backward scans of repair_truncated_json: from the last closer cl of
\* the later kind down to the start, counting closers up and openers down;
\* the text is cut after that closer when the count comes back to 0 at an
\* opener, and kept whole otherwise (the for ... else branch).
TruncationCut(s) ==
    LET lb   == RFind(s, "}")
        lk   == RFind(s, "]")
        opn  == IF lb > lk THEN "{" ELSE "["
        cls  == IF lb > lk THEN "}" ELSE "]"
        last == IF lb > lk THEN lb ELSE lk
        O    == {k \in 1..last : s[k] = opn}
        C    == {k \in 1..last : s[k] = cls}
        hit  == \E i \in O : Cardinality({k \in C : k >= i}) = Cardinality({k \in O : k >= i})
    IN  IF hit THEN Slice(s, 1, last) ELSE s

\* The text repair_truncated_json tests and returns.
TruncatedText(s) == CloseOpen(TruncationCut(StripMarkdown(s)))

\* [95, 90, 85, 80, 75, 70, 65, 60, 55, 50]
Percentages == <<95, 90, 85, 80, 75, 70, 65, 60, 55, 50>>

\* The candidate extract_largest_valid_json tests for one percentage of the
\* stripped text t.
PrefixCandidate(t, pct) == CloseOpen(Slice(t, 1, (Len(t) * pct) \div 100))

\* The loop of extract_largest_valid_json: the first candidate that parses,
\* None when none does.
LargestValid(s) ==
    LET First(t, good) ==
            IF good = {} THEN None ELSE PrefixCandidate(t, Percentages[Min(good)])
        Search(t) ==
            First(t, {k \in 1..Len(Percentages) :
                         ParseJson(PrefixCandidate(t, Percentages[k])).ok})
    IN  Search(StripMarkdown(s))

\* '"extracted_fields": ['
StartMarker ==
    <<"\"", "e", "x", "t", "r", "a", "c", "t", "e", "d", "_", "f", "i", "e", "l", "d", "s",
      "\"", ":", " ", "[">>

\* The f-string every salvage stage wraps its array in.
EnvelopeHead ==
    <<"{", "\"", "e", "x", "t", "r", "a", "c", "t", "e", "d", "_", "f", "i", "e", "l", "d", "s",
      "\"", ":", " ">>

EnvelopeTail ==
    <<",", " ", "\"", "a", "l", "l", "_", "c", "h", "e", "c", "k", "b", "o", "x", "e",
      "s", "\"", ":", " ", "{", "\"", "a", "l", "l", "_", "c", "h", "e", "c", "k", "b",
      "o", "x", "e", "s", "_", "s", "u", "m", "m", "a", "r", "y", "\"", ":", " ", "{",
      "}", "}", ",", " ", "\"", "s", "a", "m", "p", "l", "e", "_", "a", "n", "a", "l",
      "y", "s", "i", "s", "_", "m", "a", "p", "p", "i", "n", "g", "\"", ":", " ", "{",
      "\"", "s", "a", "m", "p", "l", "e", "_", "i", "d", "s", "\"", ":", " ", "[", "]",
      ",", " ", "\"", "a", "n", "a", "l", "y", "s", "i", "s", "_", "r", "e", "q", "u",
      "e", "s", "t", "\"", ":", " ", "[", "]", ",", " ", "\"", "s", "a", "m", "p", "l",
      "e", "_", "a", "n", "a", "l", "y", "s", "i", "s", "_", "m", "a", "p", "\"", ":",
      " ", "{", "}", "}", ",", " ", "\"", "s", "a", "m", "p", "l", "e", "_", "i", "d",
      "s", "\"", ":", " ", "[", "]", ",", " ", "\"", "a", "n", "a", "l", "y", "s", "i",
      "s", "_", "r", "e", "q", "u", "e", "s", "t", "\"", ":", " ", "[", "]", "}">>

\* f'{{"extracted_fields": {array}, "all_checkboxes": ... }}'
Envelope(array) == EnvelopeHead \o array \o EnvelopeTail

\* json_str.find(start_marker) in the stripped text, 0 when absent.
MarkerPos(t) == Find(t, StartMarker)

\* array_start = start_pos + len(start_marker) - 1: the position of the "[".
ArrayStart(t) == MarkerPos(t) + Len(StartMarker) - 1

\* The bracket-counting loop of extract_extracted_fields_only: the first "]"
\* from array_start on at which as many "]" as "[" have been read; 0 when
\* the loop ends without one (end_pos = -1).
EndPos(t, array_start) ==
    LET O == {k \in array_start..Len(t) : t[k] = "["}
        C == {k \in array_start..Len(t) : t[k] = "]"}
        E == {i \in C : Cardinality({k \in C : k <= i}) = Cardinality({k \in O : k <= i})}
    IN  IF E = {} THEN 0 ELSE Min(E)

\* minimal_json of extract_extracted_fields_only when the array closes:
\* the envelope around json_str[start_pos:end_pos + 1].
FieldsOnlyText(t) == Envelope(Slice(t, MarkerPos(t), EndPos(t, ArrayStart(t))))

\* The backward loop of extract_last_complete_fields over positions
\* len-1 .. array_start+1: the first "{" at which as many "{" as "}" have
\* been read and whose next character is "," or "]"; 0 when there is none
\* (last_complete_pos = -1).  The value is the position of that "{".
LastCompletePos(t, array_start) ==
    LET O == {k \in (array_start + 1)..Len(t) : t[k] = "{"}
        C == {k \in (array_start + 1)..Len(t) : t[k] = "}"}
        H == {i \in O : /\ Cardinality({k \in C : k >= i}) = Cardinality({k \in O : k >= i})
                        /\ i + 1 <= Len(t)
                        /\ t[i + 1] \in {",", "]"}}
    IN  IF H = {} THEN 0 ELSE Max(H)

\* minimal_json of extract_last_complete_fields:
\* json_str[array_start:last_complete_pos], closed by "]" unless it ends
\* with one, inside the envelope.
LastCompleteText(t, array_start) ==
    LET partial == Slice(t, array_start, LastCompletePos(t, array_start))
        closed  == IF Len(partial) > 0 /\ partial[Len(partial)] = "]"
                   THEN partial ELSE partial \o <<"]">>
    IN  Envelope(closed)

\* The forward loop of extract_any_complete_fields.  brace_count is never
\* reset, so a field ends at every "}" where, from array_start on, as many
\* "}" as "{" have been read (in_field then holds: a "{" was read since the
\* previous end); current_field runs from the first "{" after the previous
\* end.  The result lists the <<first, last>> positions in text order.
FieldSpans(t, array_start) ==
    LET O    == {k \in array_start..Len(t) : t[k] = "{"}
        C    == {k \in array_start..Len(t) : t[k] = "}"}
        E    == {j \in C : Cardinality({k \in C : k <= j}) = Cardinality({k \in O : k <= j})}
        ends == SortedSeq(E)
        prev(k) == IF k = 1 THEN array_start - 1 ELSE ends[k - 1]
    IN  [k \in 1..Len(ends) |-> <<Min({o \in O : o > prev(k)}), ends[k]>>]

\* fields of extract_any_complete_fields: the spans that parse to a dict
\* holding 'key', parsed, in text order.
CompleteFields(t, array_start) ==
    LET Keep(obj) ==
            LET Take(good) == [k \in 1..Len(good) |-> obj[good[k]].v]
            IN  Take(SortedSeq({k \in 1..Len(obj) :
                                   obj[k].ok /\ obj[k].v.t = "dict" /\ HasKey(obj[k].v, k_key)}))
        Parse(sp) == Keep([k \in 1..Len(sp) |-> ParseJson(Slice(t, sp[k][1], sp[k][2]))])
    IN  Parse(FieldSpans(t, array_start))

\* The minimal_json a salvage stage builds from its list of fields.
FieldsEnvelope(fields) == Envelope(Dumps(JList(fields)))

\* if fields: the envelope, once json.loads has accepted it; None otherwise.
FieldsResult(fields) == IF fields # <<>> THEN IfParses(FieldsEnvelope(fields)) ELSE None

\* str.lower() on one character.
Lower(c) ==
    LET up == <<"A", "B", "C", "D", "E", "F", "G", "H", "I", "J", "K", "L", "M",
                "N", "O", "P", "Q", "R", "S", "T", "U", "V", "W", "X", "Y", "Z">>
        lo == <<"a", "b", "c", "d", "e", "f", "g", "h", "i", "j", "k", "l", "m",
                "n", "o", "p", "q", "r", "s", "t", "u", "v", "w", "x", "y", "z">>
    IN  IF \E k \in 1..26 : up[k] = c THEN lo[CHOOSE k \in 1..26 : up[k] = c] ELSE c

\* \s* from position i: the first position that holds no whitespace.
SkipWs(s, i) ==
    CHOOSE k \in i..(Len(s) + 1) :
        /\ k > Len(s) \/ s[k] \notin PyWS
        /\ \A m \in i..(k - 1) : s[m] \in PyWS

\* One piece of field_pattern matched at position i (0: no match so far);
\* the value is the position after the piece, 0 when it does not match.
\*   MChar:  \s*c     MWord:  \s*"word" (re.IGNORECASE)     MStr:  \s*"[^"]*"
MChar(s, i, c) ==
    LET At(p) == IF p <= Len(s) /\ s[p] = c THEN p + 1 ELSE 0
    IN  IF i = 0 THEN 0 ELSE At(SkipWs(s, i))

MWord(s, i, w) ==
    LET At(p, q) ==
            IF /\ p + Len(q) - 1 <= Len(s)
               /\ \A k \in 1..Len(q) : Lower(s[p + k - 1]) = q[k]
            THEN p + Len(q) ELSE 0
    IN  IF i = 0 THEN 0 ELSE At(SkipWs(s, i), <<"\"">> \o w \o <<"\"">>)

MStr(s, i) ==
    LET Quote(k) == s[k] = "\""
        At(p) ==
            IF p <= Len(s) /\ s[p] = "\"" /\ \E k \in (p + 1)..Len(s) : Quote(k)
            THEN (CHOOSE k \in (p + 1)..Len(s) :
                     Quote(k) /\ \A m \in (p + 1)..(k - 1) : ~Quote(m)) + 1
            ELSE 0
    IN  IF i = 0 THEN 0 ELSE At(SkipWs(s, i))

\* field_pattern of emergency_field_extraction matched at position p:
\*   \{\s*"key"\s*:\s*"[^"]*"\s*,\s*"value"\s*:\s*"[^"]*"\s*,\s*"type"\s*:\s*"[^"]*"
\* The value is the last position of the match, 0 when there is none.
PatternEnd(s, p) ==
    LET \* "word" : "..." from position i
        Entry(i, word) == MStr(s, MChar(s, MWord(s, i, word), ":"))
        Last(c) == IF c = 0 THEN 0 ELSE c - 1
    IN  IF s[p] # "{" THEN 0
        ELSE Last(Entry(MChar(s, Entry(MChar(s, Entry(p + 1, k_key), ","), k_value), ","),
                        k_type))

\* re.findall: of the matches, in text order, those that start after the
\* end of the match taken before.
RECURSIVE TakeMatches(_, _, _, _)
TakeMatches(s, starts, k, after) ==
    LET Taken(end) ==
            <<Slice(s, starts[k], end)>> \o TakeMatches(s, starts, k + 1, end)
    IN  IF k > Len(starts) THEN <<>>
        ELSE IF starts[k] <= after THEN TakeMatches(s, starts, k + 1, after)
        ELSE Taken(PatternEnd(s, starts[k]))

\* matches = re.findall(field_pattern, json_str, re.IGNORECASE)
FindAll(s) ==
    LET starts == SortedSeq({p \in 1..Len(s) : s[p] = "{" /\ PatternEnd(s, p) > 0})
    IN  TakeMatches(s, starts, 1, 0)

\* fields of emergency_field_extraction: every match closed by "}" that
\* parses to a dict holding 'key' and 'value', with the defaults for page
\* and method set.
EmergencyFields(s) ==
    LET Keep(obj) ==
            LET Take(good) ==
                    [k \in 1..Len(good) |->
                        SetDefault(SetDefault(obj[good[k]].v, k_page, JNum(<<"1">>)),
                                   k_method, JStr(v_AI_Vision))]
            IN  Take(SortedSeq({k \in 1..Len(obj) :
                                   /\ obj[k].ok
                                   /\ obj[k].v.t = "dict"
                                   /\ HasKey(obj[k].v, k_key)
                                   /\ HasKey(obj[k].v, k_value)}))
        Parse(ms) == Keep([k \in 1..Len(ms) |-> ParseJson(ms[k] \o <<"}">>)])
    IN  Parse(FindAll(s))

emergency_field_extraction(s) == FieldsResult(EmergencyFields(s))
----------------------------------------------------------------------------
(* Python values in the post-processing loop                                *)

\* str.upper() on one character.
Upper(c) ==
    LET up == <<"A", "B", "C", "D", "E", "F", "G", "H", "I", "J", "K", "L", "M",
                "N", "O", "P", "Q", "R", "S", "T", "U", "V", "W", "X", "Y", "Z">>
        lo == <<"a", "b", "c", "d", "e", "f", "g", "h", "i", "j", "k", "l", "m",
                "n", "o", "p", "q", "r", "s", "t", "u", "v", "w", "x", "y", "z">>
    IN  IF \E k \in 1..26 : lo[k] = c THEN up[CHOOSE k \in 1..26 : lo[k] = c] ELSE c

\* str.lower()
LowerStr(s) == [i \in 1..Len(s) |-> Lower(s[i])]

\* str.upper()
UpperStr(s) == [i \in 1..Len(s) |-> Upper(s[i])]

\* w in s  for strings
Contains(s, w) == \E i \in 1..(Len(s) - Len(w) + 1) : OccursAt(s, w, i)

\* s.endswith(w)
EndsWith(s, w) == Len(w) <= Len(s) /\ OccursAt(s, w, Len(s) - Len(w) + 1)

\* bool(v): empty strings and containers, zero, False and None are falsy.
Truthy(v) ==
    CASE v.t \in {"str", "list", "dict"} -> Len(v.s) > 0
      [] v.t = "num" ->
            LET E == {i \in 1..Len(v.s) : v.s[i] \in {"e", "E"}}
                m == IF E = {} THEN Len(v.s) ELSE Min(E) - 1
            IN  \E i \in 1..m : v.s[i] \in (Digit \ {"0"}) \/ v.s[i] \in {"N", "I"}
      [] v.t = "true" -> TRUE
      [] OTHER -> FALSE

\* a == b for parsed values: the same type and the same content, the
\* entries of a dict in any order (a number equals only a number written
\* alike).
RECURSIVE JEq(_, _)
JEq(a, b) ==
    /\ a.t = b.t
    /\ CASE a.t \in {"str", "num"} -> a.s = b.s
         [] a.t = "list" ->
               /\ Len(a.s) = Len(b.s)
               /\ \A k \in 1..Len(a.s) : JEq(a.s[k], b.s[k])
         [] a.t = "dict" ->
               /\ Len(a.s) = Len(b.s)
               /\ \A k \in 1..Len(a.s) : \E m \in 1..Len(b.s) :
                     a.s[k][1] = b.s[m][1] /\ JEq(a.s[k][2], b.s[m][2])
         [] OTHER -> TRUE

\* v in list
InList(v, list) == \E k \in 1..Len(list) : JEq(list[k], v)

\* hash(v) is defined: lists and dicts are unhashable.
Hashable(v) == v.t \notin {"list", "dict"}

\* A dict of the accumulators: <<key, value>> pairs in insertion order, the
\* keys parsed values.
PyHas(d, key) == \E k \in 1..Len(d) : JEq(d[k][1], key)

PyGet(d, key) == d[CHOOSE k \in 1..Len(d) : JEq(d[k][1], key)][2]

PySet(d, key, v) ==
    IF PyHas(d, key)
    THEN [k \in 1..Len(d) |-> IF JEq(d[k][1], key) THEN <<d[k][1], v>> ELSE d[k]]
    ELSE Append(d, <<key, v>>)

\* for x in v: the items of a list, the characters of a string, the keys of
\* a dict.
Iter(v) ==
    CASE v.t = "list" -> v.s
      [] v.t = "str"  -> [i \in 1..Len(v.s) |-> JStr(<<v.s[i]>>)]
      [] v.t = "dict" -> [i \in 1..Len(v.s) |-> JStr(v.s[i][1])]
      [] OTHER -> <<>>

\* iter(v) raises TypeError: numbers, booleans and None are not iterable.
NotIterable(v) == v.t \notin {"list", "str", "dict"}

\* The list after  for x in items: if x not in list: list.append(x)
AppendNew(list, items) ==
    LET Added(new) == list \o [k \in 1..Len(new) |-> items[new[k]]]
    IN  Added(SortedSeq({i \in 1..Len(items) :
                            /\ ~InList(items[i], list)
                            /\ \A j \in 1..(i - 1) : ~JEq(items[j], items[i])}))

\* The page number of an image as the int stored in a record.
PageNumber(p) == JNum(<<(<<"1", "2", "3", "4", "5", "6", "7", "8", "9">>)[p]>>)

----------------------------------------------------------------------------
(* normalize_checkbox_value and the per-record body of the loop             *)

\* normalize_checkbox_value raises AttributeError: value is truthy and has
\* no lower().
NormalizeRaises(value) == Truthy(value) /\ value.t # "str"

normalize_checkbox_value(value) ==
    IF ~Truthy(value) THEN v_unchecked
    ELSE IF LowerStr(value.s) \in UncheckedWords THEN v_unchecked
    ELSE IF LowerStr(value.s) \in CheckedWords THEN v_checked
    ELSE v_unchecked

\* field.get('type') == name
TypeIs(field, name) ==
    LET ty == Get(field, k_type, JLit("null"))
    IN  ty.t = "str" /\ ty.s = name

\* The names of the categories of all_checkboxes.
Categories ==
    {"hazard_checkboxes", "technical_checkboxes", "administrative_checkboxes",
     "analysis_checkboxes", "data_deliverables_checkboxes", "rush_option_checkboxes",
     "timezone_checkboxes", "reportable_checkboxes", "other_checkboxes",
     "all_checkboxes_summary"}

\* The if/elif chain that picks the category of a checkbox whose type and
\* key are strings.
CheckboxCategory(checkbox_type, checkbox_key) ==
    LET ct == LowerStr(checkbox_type)
        ck == LowerStr(checkbox_key)
    IN  IF Contains(ct, w_data_deliverables) \/ \E w \in DeliverableKeywords : Contains(ck, w)
        THEN "data_deliverables_checkboxes"
        ELSE IF Contains(ct, w_rush) \/ \E w \in RushKeywords : Contains(ck, w)
        THEN "rush_option_checkboxes"
        ELSE IF Contains(ct, w_timezone) \/ UpperStr(checkbox_key) \in TimezoneKeys
        THEN "timezone_checkboxes"
        ELSE IF Contains(ct, w_reportable) \/ ck \in ReportableKeys
        THEN "reportable_checkboxes"
        ELSE IF Contains(ct, w_hazard) THEN "hazard_checkboxes"
        ELSE IF Contains(ct, w_technical) THEN "technical_checkboxes"
        ELSE IF Contains(ct, w_administrative) THEN "administrative_checkboxes"
        ELSE "other_checkboxes"

\* The accumulators of analyze_with_ai_vision as one record, with the flag
\* that tells whether the body raised.
Acc(f, cb, ids, req, map, raised) ==
    [all_fields |-> f, all_checkboxes |-> cb, sample_ids |-> ids,
     analysis_request |-> req, sample_analysis_map |-> map, raised |-> raised]

\* The branch  field.get('type') == 'analysis_checkbox'  for the appended
\* record f: both lists grow before the dict lookups hash their keys.
AnalysisCheckboxBranch(a, f) ==
    LET sample_id     == Get(f, k_sample_id, JLit("null"))
        analysis_name == Get(f, k_analysis_name, JLit("null"))
        ids  == IF InList(sample_id, a.sample_ids) THEN a.sample_ids
                ELSE Append(a.sample_ids, sample_id)
        req  == IF InList(analysis_name, a.analysis_request) THEN a.analysis_request
                ELSE Append(a.analysis_request, analysis_name)
        map1 == IF PyHas(a.sample_analysis_map, sample_id) THEN a.sample_analysis_map
                ELSE PySet(a.sample_analysis_map, sample_id, <<>>)
        map2 == PySet(map1, sample_id,
                      PySet(PyGet(map1, sample_id), analysis_name, Item(f, k_value)))
    IN  IF ~(Truthy(sample_id) /\ Truthy(analysis_name)) THEN a
        ELSE IF ~Hashable(sample_id)
        THEN Acc(a.all_fields, a.all_checkboxes, ids, req, a.sample_analysis_map, TRUE)
        ELSE IF ~Hashable(analysis_name)
        THEN Acc(a.all_fields, a.all_checkboxes, ids, req, map1, TRUE)
        ELSE Acc(a.all_fields, a.all_checkboxes, ids, req, map2, FALSE)

\* The branch  field.get('type') == 'sample_field'.
SampleFieldBranch(a, f) ==
    LET own    == Get(f, k_sample_id, JLit("null"))
        key    == Get(f, k_key, JStr(<<>>))
        listed == key.t = "str" /\ key.s \in SampleIdKeys
        raises == ~Truthy(own) /\ ~listed /\ key.t # "str"
        named  == listed \/ (key.t = "str" /\ EndsWith(key.s, s_sample_id_suffix))
        sample_id == IF Truthy(own) THEN own
                     ELSE IF named THEN Get(f, k_value, JLit("null"))
                     ELSE own
    IN  IF raises
        THEN Acc(a.all_fields, a.all_checkboxes, a.sample_ids, a.analysis_request,
                 a.sample_analysis_map, TRUE)
        ELSE IF Truthy(sample_id) /\ ~InList(sample_id, a.sample_ids)
        THEN Acc(a.all_fields, a.all_checkboxes, Append(a.sample_ids, sample_id),
                 a.analysis_request, a.sample_analysis_map, FALSE)
        ELSE a

\* The branch  field.get('type') == 'checkbox'.  checkbox_type.lower() is
\* evaluated first; checkbox_key.lower() only when the type does not name
\* the data deliverables.
CheckboxBranch(a, f) ==
    LET checkbox_type == Get(f, k_checkbox_type, JStr(v_other))
        checkbox_key  == Get(f, k_key, JStr(v_Unknown))
        deliver == checkbox_type.t = "str"
                   /\ Contains(LowerStr(checkbox_type.s), w_data_deliverables)
        raises  == \/ checkbox_type.t # "str"
                   \/ (~deliver /\ checkbox_key.t # "str")
                   \/ ~Hashable(checkbox_key)
        cat     == IF deliver THEN "data_deliverables_checkboxes"
                   ELSE CheckboxCategory(checkbox_type.s, checkbox_key.s)
        summary == JDict(<< <<k_value, Item(f, k_value)>>,
                            <<k_type, checkbox_type>>,
                            <<k_page, Item(f, k_page)>>,
                            <<k_sample_id, JLit("null")>> >>)
        cb1     == [a.all_checkboxes EXCEPT
                       ![cat] = PySet(@, checkbox_key, Item(f, k_value))]
        cb2     == [cb1 EXCEPT
                       !["all_checkboxes_summary"] = PySet(@, checkbox_key, summary)]
    IN  IF raises
        THEN Acc(a.all_fields, a.all_checkboxes, a.sample_ids, a.analysis_request,
                 a.sample_analysis_map, TRUE)
        ELSE Acc(a.all_fields, cb2, a.sample_ids, a.analysis_request,
                 a.sample_analysis_map, FALSE)

\* The if/elif chain on field.get('type') that follows the append.
TypeBranch(a, f) ==
    IF TypeIs(f, v_analysis_checkbox) THEN AnalysisCheckboxBranch(a, f)
    ELSE IF TypeIs(f, v_sample_field) THEN SampleFieldBranch(a, f)
    ELSE IF TypeIs(f, v_checkbox) THEN CheckboxBranch(a, f)
    ELSE a

\* all_fields.append(field), then the branch the type picks.
Appended(a, f) ==
    TypeBranch(Acc(Append(a.all_fields, f), a.all_checkboxes, a.sample_ids,
                   a.analysis_request, a.sample_analysis_map, FALSE), f)

\* One pass of  for field in result['extracted_fields']  on the accumulators
\* a: page and method are set, a checkbox value is normalised, the record
\* is appended, then its type picks the branch.  Setting an item on
\* anything but a dict raises, and so does normalising a truthy value that
\* is no string: both before the record is appended.
FieldStep(a, field, page) ==
    LET f1  == SetItem(SetItem(field, k_page, PageNumber(page)), k_method, JStr(v_AI_Vision))
        box == TypeIs(f1, v_checkbox) \/ TypeIs(f1, v_analysis_checkbox)
        val == Get(f1, k_value, JStr(<<>>))
    IN  IF field.t # "dict" \/ (box /\ NormalizeRaises(val))
        THEN Acc(a.all_fields, a.all_checkboxes, a.sample_ids, a.analysis_request,
                 a.sample_analysis_map, TRUE)
        ELSE Appended(a, IF box
                         THEN SetItem(f1, k_value, JStr(normalize_checkbox_value(val)))
                         ELSE f1)

----------------------------------------------------------------------------
(* The sample_analysis_mapping block                                        *)

\* name in mapping: a key of a dict, an item of a list, a part of a string;
\* any other value raises TypeError.
MappingHas(mapping, name) ==
    CASE mapping.t = "dict" -> HasKey(mapping, name)
      [] mapping.t = "list" -> InList(JStr(name), mapping.s)
      [] mapping.t = "str"  -> Contains(mapping.s, name)
      [] OTHER -> FALSE

\* sample_analysis_map after the loop over mapping['sample_analysis_map']:
\* every sid gets an entry, and a dict analysis_map is merged into it.
MergeMaps(map, given) ==
    LET sids   == [k \in 1..Len(given.s) |-> JStr(given.s[k][1])]
        keys   == AppendNew([k \in 1..Len(map) |-> map[k][1]], sids)
        old(key) == IF PyHas(map, key) THEN PyGet(map, key) ELSE <<>>
        upd(key) == IF \E k \in 1..Len(given.s) :
                          given.s[k][1] = key.s /\ given.s[k][2].t = "dict"
                    THEN Item(given, key.s).s ELSE <<>>
        merged(key) ==
            IF key.t # "str" THEN old(key)
            ELSE LET o == old(key)
                     u == upd(key)
                     names == AppendNew([k \in 1..Len(o) |-> o[k][1]],
                                        [k \in 1..Len(u) |-> JStr(u[k][1])])
                     val(n) == IF n.t = "str" /\ \E k \in 1..Len(u) : u[k][1] = n.s
                               THEN u[CHOOSE k \in 1..Len(u) : u[k][1] = n.s][2]
                               ELSE PyGet(o, n)
                 IN  [k \in 1..Len(names) |-> <<names[k], val(names[k])>>]
    IN  [k \in 1..Len(keys) |-> <<keys[k], merged(keys[k])>>]

\* The block  if 'sample_analysis_mapping' in result  for a dict result.
\* The three parts run in order; a part that raises leaves the effects of
\* the parts before it in place.
MappingStep(a, result) ==
    LET mapping == Item(result, k_sample_analysis_mapping)
        isd     == mapping.t = "dict"
        has1    == MappingHas(mapping, k_sample_ids)
        has2    == MappingHas(mapping, k_analysis_request)
        has3    == MappingHas(mapping, k_sample_analysis_map)
        given1  == Item(mapping, k_sample_ids)
        given2  == Item(mapping, k_analysis_request)
        given3  == Item(mapping, k_sample_analysis_map)
        ids     == IF has1 THEN AppendNew(a.sample_ids, Iter(given1)) ELSE a.sample_ids
        req     == IF has2 THEN AppendNew(a.analysis_request, Iter(given2))
                   ELSE a.analysis_request
        map     == IF has3 THEN MergeMaps(a.sample_analysis_map, given3)
                   ELSE a.sample_analysis_map
    IN  IF ~HasKey(result, k_sample_analysis_mapping) THEN a
        ELSE IF ~isd
        THEN Acc(a.all_fields, a.all_checkboxes, a.sample_ids, a.analysis_request,
                 a.sample_analysis_map,
                 mapping.t \notin {"list", "str"} \/ has1 \/ has2 \/ has3)
        ELSE IF has1 /\ NotIterable(given1)
        THEN Acc(a.all_fields, a.all_checkboxes, a.sample_ids, a.analysis_request,
                 a.sample_analysis_map, TRUE)
        ELSE IF has2 /\ NotIterable(given2)
        THEN Acc(a.all_fields, a.all_checkboxes, ids, a.analysis_request,
                 a.sample_analysis_map, TRUE)
        ELSE IF has3 /\ given3.t # "dict"
        THEN Acc(a.all_fields, a.all_checkboxes, ids, req, a.sample_analysis_map, TRUE)
        ELSE Acc(a.all_fields, a.all_checkboxes, ids, req, map, FALSE)
----------------------------------------------------------------------------
(* validate_field_value                                                     *)

Letters ==
    {"a", "b", "c", "d", "e", "f", "g", "h", "i", "j", "k", "l", "m", "n", "o", "p",
     "q", "r", "s", "t", "u", "v", "w", "x", "y", "z", "A", "B", "C", "D", "E", "F",
     "G", "H", "I", "J", "K", "L", "M", "N", "O", "P", "Q", "R", "S", "T", "U", "V",
     "W", "X", "Y", "Z"}

Capitals == {Upper(c) : c \in Letters}

\* s.startswith(w)
StartsWith(s, w) == OccursAt(s, w, 1)

\* str(v) for the values the records hold: strings, integers, None, True
\* and False (no float and no container is converted here).
PyStr(v) ==
    CASE v.t = "str" -> v.s
      [] v.t = "num" /\ \A i \in 1..Len(v.s) : v.s[i] \in Digit \cup {"-"} -> v.s
      [] v.t = "null" -> <<"N", "o", "n", "e">>
      [] v.t = "true" -> <<"T", "r", "u", "e">>
      [] v.t = "false" -> <<"F", "a", "l", "s", "e">>

\* The ends of the matches of the first k items of a pattern at the start
\* of s.  An item stands for  [c]{lo,hi}.
RECURSIVE Reach(_, _, _)
Reach(s, pat, k) ==
    IF k = 0 THEN {0}
    ELSE LET starts == Reach(s, pat, k - 1)
         IN  {e \in 0..Len(s) : \E b \in starts :
                /\ b <= e
                /\ (e - b) \in pat[k].lo..pat[k].hi
                /\ \A j \in (b + 1)..e : s[j] \in pat[k].c}

\* re.match('^...$', s) for a pattern of such items, s without line end.
FullMatch(s, pat) == Len(s) \in Reach(s, pat, Len(pat))

\* One item of a pattern; Many stands for no upper limit.
Rep(c, lo, hi) == [c |-> c, lo |-> lo, hi |-> hi]

Many == 1000

\* value.isdigit() and 1 <= int(value) <= 100
CountInRange(value) ==
    LET Z == {i \in 1..Len(value) : value[i] # "0"}
    IN  /\ value # <<>>
        /\ \A i \in 1..Len(value) : value[i] \in Digit
        /\ Z # {}
        /\ \/ Len(value) - Min(Z) + 1 <= 2
           \/ SubSeq(value, Min(Z), Len(value)) = <<"1", "0", "0">>

\* The words that stand for an empty field, in capitals.
EmptyWords == {<<"N", "I", "L">>, <<"N", "/", "A">>, <<"-">>, <<>>, <<"N", "U", "L", "L">>, <<"E", "M", "P", "T", "Y">>}

\* The confidence score of a value that is no empty word, in tenths:
\* the if/elif chain over the key.
Confidence(key, value) ==
    LET up == UpperStr(value)
        \* ^[a-zA-Z0-9._%+-]+@[a-zA-Z0-9.-]+\.[a-zA-Z]{2,}$
        email_pattern ==
            <<Rep(Letters \cup Digit \cup {".", "_", "%", "+", "-"}, 1, Many),
              Rep({"@"}, 1, 1), Rep(Letters \cup Digit \cup {".", "-"}, 1, Many),
              Rep({"."}, 1, 1), Rep(Letters, 2, Many)>>
        \* ^[\d\s\-\(\)\+\.]+$
        phone_pattern == <<Rep(Digit \cup PyWS \cup {"-", "(", ")", "+", "."}, 1, Many)>>
        \* MM-DD-YY or MM/DD/YYYY (twice in the source list) and YYYY-MM-DD
        date_patterns ==
            {<<Rep(Digit, 1, 2), Rep({"-", "/"}, 1, 1), Rep(Digit, 1, 2),
               Rep({"-", "/"}, 1, 1), Rep(Digit, 2, 4)>>,
             <<Rep(Digit, 4, 4), Rep({"-", "/"}, 1, 1), Rep(Digit, 1, 2),
               Rep({"-", "/"}, 1, 1), Rep(Digit, 1, 2)>>}
        \* HH:MM, HHMM and HH:MM AM/PM
        time_patterns ==
            {<<Rep(Digit, 1, 2), Rep({":"}, 1, 1), Rep(Digit, 2, 2)>>,
             <<Rep(Digit, 3, 4)>>,
             <<Rep(Digit, 1, 2), Rep({":"}, 1, 1), Rep(Digit, 2, 2), Rep(PyWS, 0, Many),
               Rep({"A", "P"}, 1, 1), Rep({"M"}, 1, 1)>>}
        \* ^[A-Z]{1,3}-\d{1,3}[A-Z]?$  and the same without the dash
        dashed   == <<Rep(Capitals, 1, 3), Rep({"-"}, 1, 1), Rep(Digit, 1, 3), Rep(Capitals, 0, 1)>>
        undashed == <<Rep(Capitals, 1, 3), Rep(Digit, 1, 3), Rep(Capitals, 0, 1)>>
    IN  IF Contains(key, <<"e", "m", "a", "i", "l">>)
        THEN (IF FullMatch(value, email_pattern) THEN 9 ELSE 3)
        ELSE IF Contains(key, <<"p", "h", "o", "n", "e">>)
        THEN (IF /\ FullMatch(value, phone_pattern)
                 /\ Cardinality({i \in 1..Len(value) :
                        value[i] \notin {" ", "-", "(", ")", "+", "."}}) >= 10
              THEN 8 ELSE 4)
        ELSE IF Contains(key, <<"d", "a", "t", "e">>)
        THEN (IF \E p \in date_patterns : FullMatch(value, p) THEN 8 ELSE 4)
        ELSE IF Contains(key, <<"t", "i", "m", "e">>)
        THEN (IF \E p \in time_patterns : FullMatch(up, p) THEN 8 ELSE 4)
        ELSE IF Contains(key, <<"s", "a", "m", "p", "l", "e">>) /\ Contains(key, <<"i", "d">>)
        THEN (IF FullMatch(up, dashed) THEN 9
              ELSE IF FullMatch(up, undashed) THEN 8 ELSE 5)
        ELSE IF \/ Contains(key, <<"a", "n", "a", "l", "y", "s", "i", "s">>)
                \/ \E code \in {<<"8", "2", "4", "0">>, <<"8", "0", "8", "0">>, <<"T", "P", "H">>, <<"8", "2", "6", "0">>, <<"8", "2", "7", "0">>} : Contains(up, code)
        THEN (IF \/ FullMatch(value, <<Rep(Digit, 4, 4)>>)
                 \/ up \in {<<"T", "P", "H">>, <<"V", "O", "C">>, <<"S", "V", "O", "C">>, <<"P", "E", "S", "T", "I", "C", "I", "D", "E", "S">>}
              THEN 9 ELSE 6)
        ELSE IF Contains(key, <<"m", "a", "t", "r", "i", "x">>)
        THEN (IF up \in {<<"D", "W">>, <<"S", "W">>, <<"G", "W">>, <<"W", "W">>, <<"S">>, <<"S", "O", "I", "L">>, <<"A", "I", "R">>, <<"W", "A", "T", "E", "R">>}
              THEN 9 ELSE 6)
        ELSE IF Contains(key, <<"c", "o", "m", "p">>) \/ Contains(key, <<"g", "r", "a", "b">>)
        THEN (IF up \in {<<"G">>, <<"C">>, <<"G", "r", "a", "b">>, <<"C", "o", "m", "p", "o", "s", "i", "t", "e">>, <<"G", "r", "a", "b", " ", "S", "a", "m", "p", "l", "e">>, <<"C", "o", "m", "p", "o", "s", "i", "t", "e", " ", "S", "a", "m", "p", "l", "e">>}
              THEN 9 ELSE 6)
        ELSE IF Contains(key, <<"c", "o", "n", "t", "a", "i", "n", "e", "r">>) \/ Contains(key, <<"c", "o", "n", "t">>)
        THEN (IF CountInRange(value) THEN 8
              ELSE IF value # <<>> /\ \A i \in 1..Len(value) : value[i] \in Digit THEN 6
              ELSE 4)
        ELSE IF Len(value) > 0 THEN 7 ELSE 3

\* validate_field_value as it would be if it gave an empty value the
\* confidence 0.2.
validate_field_value_unsure(field_key, field_value, field_type) ==
    LET key   == Strip(LowerStr(PyStr(field_key)))
        value == IF Truthy(field_value) THEN Strip(PyStr(field_value)) ELSE <<>>
    IN  IF UpperStr(value) \in EmptyWords
        THEN [value |-> v_NIL, confidence |-> 2]
        ELSE [value |-> value, confidence |-> Confidence(key, value)]

\* validate_field_value(field_key, field_value, field_type): the value and
\* the confidence it returns (the notes, which no caller reads, are left
\* out).  The confidence is counted in tenths: 5 stands for 0.5.
validate_field_value(field_key, field_value, field_type) ==
    LET key   == Strip(LowerStr(PyStr(field_key)))
        value == IF Truthy(field_value) THEN Strip(PyStr(field_value)) ELSE <<>>
    IN  IF UpperStr(value) \in EmptyWords
        THEN [value |-> v_NIL, confidence |-> 5]
        ELSE [value |-> value, confidence |-> Confidence(key, value)]
----------------------------------------------------------------------------
(* restructure_sample_data                                                  *)

\* The string "NIL" as a value of a record or of a slot.
NIL == JStr(v_NIL)

\* The slots of sample_info that take their values from the records.
Slots ==
    <<"Matrix", "Comp/Grab", "Composite Start Date", "Composite Start Time",
      "Composite or Collected End Date", "Composite or Collected End Time",
      "# Cont", "Residual Chloride Result", "Residual Chloride Units",
      "Sample Comment">>

\* sample_info[slot] = value
Put(sample_info, slot, value) == [sample_info EXCEPT ![slot] = value]

\* str(field.get('key', '')).lower()
KeyOf(field) == LowerStr(PyStr(Get(field, k_key, JStr(<<>>))))

\* field.get('value', 'NIL')
ValueOf(field) == Get(field, k_value, NIL)

\* The records of sample_data_fields with  field.get('type') == 'sample_field'.
SampleFields(sample_data_fields) ==
    SelectSeq(sample_data_fields, LAMBDA field : TypeIs(field, v_sample_field))

\* s.replace(' ', '_').replace('-', '_')
Underscored(s) == [i \in 1..Len(s) |-> IF s[i] \in {" ", "-"} THEN "_" ELSE s[i]]

\* "_" followed by sample_id with its blanks and dashes made underscores:
\* the f-string of the branches at lines 1148 and 1150.
IdSuffix(sample_id) == <<"_">> \o Underscored(sample_id.s)

\* The grouping loop as it would be if a record with the key 'sample_id'
\* and no sample_id of its own were handled like any other record without
\* one.
RECURSIVE sample_field_groups_explicit(_, _)
sample_field_groups_explicit(sample_data_fields, n) ==
    IF n = 0 THEN [current_sample_id |-> JLit("null"), groups |-> <<>>]
    ELSE LET g         == sample_field_groups_explicit(sample_data_fields, n - 1)
             field     == sample_data_fields[n]
             sample_id == Get(field, k_sample_id, JLit("null"))
             With(id)  == IF PyHas(g.groups, id) THEN g.groups
                          ELSE PySet(g.groups, id, <<>>)
             Add(id)   == PySet(With(id), id, Append(PyGet(With(id), id), field))
         IN  IF ~TypeIs(field, v_sample_field) THEN g
             ELSE IF Truthy(sample_id)
             THEN [current_sample_id |-> sample_id, groups |-> Add(sample_id)]
             ELSE IF Truthy(g.current_sample_id)
             THEN [current_sample_id |-> g.current_sample_id,
                   groups |-> Add(g.current_sample_id)]
             ELSE g

\* current_sample_id and sample_field_groups after the first n records of
\* the grouping loop.
RECURSIVE sample_field_groups(_, _)
sample_field_groups(sample_data_fields, n) ==
    IF n = 0 THEN [current_sample_id |-> JLit("null"), groups |-> <<>>]
    ELSE LET g         == sample_field_groups(sample_data_fields, n - 1)
             field     == sample_data_fields[n]
             sample_id == Get(field, k_sample_id, JLit("null"))
             value     == Get(field, k_value, JLit("null"))
             With(id)  == IF PyHas(g.groups, id) THEN g.groups
                          ELSE PySet(g.groups, id, <<>>)
             Add(id)   == PySet(With(id), id, Append(PyGet(With(id), id), field))
         IN  IF ~TypeIs(field, v_sample_field) THEN g
             ELSE IF Truthy(sample_id)
             THEN [current_sample_id |-> sample_id, groups |-> Add(sample_id)]
             ELSE IF KeyOf(field) = <<"s", "a", "m", "p", "l", "e", "_", "i", "d">>
             THEN [current_sample_id |-> value,
                   groups |-> IF Truthy(value) THEN With(value) ELSE g.groups]
             ELSE IF Truthy(g.current_sample_id)
             THEN [current_sample_id |-> g.current_sample_id,
                   groups |-> Add(g.current_sample_id)]
             ELSE g

\* field_type_mapping after the first n records: the lower-cased keys of
\* the sample_field records in the order they first occur, each with the
\* list of its values.
RECURSIVE field_type_mapping(_, _)
field_type_mapping(sample_data_fields, n) ==
    IF n = 0 THEN <<>>
    ELSE LET m     == field_type_mapping(sample_data_fields, n - 1)
             field == sample_data_fields[n]
             key   == JStr(KeyOf(field))
             had   == IF PyHas(m, key) THEN PyGet(m, key) ELSE <<>>
         IN  IF TypeIs(field, v_sample_field)
             THEN PySet(m, key, Append(had, ValueOf(field)))
             ELSE m

\* sample_info as the loop over sample_ids builds it for a sample_id.
NewSampleInfo(sample_id) ==
    [slot \in {Slots[k] : k \in 1..Len(Slots)} \cup {"Customer Sample ID", "analysis_request"} |->
        IF slot = "Customer Sample ID" THEN sample_id
        ELSE IF slot = "analysis_request" THEN JDict(<<>>)
        ELSE NIL]
\* The if/elif chain of the loop over sample_field_groups[sample_id]:
\* lines 1048-1226.
\* Each branch is a pair: its condition and the slot it assigns.
PrimaryBranches(sample_info, key, sample_id) ==
    <<
    \* line 1048
       <<\/ StartsWith(key, <<"m", "a", "t", "r", "i", "x", "_">>)
         \/ EndsWith(key, <<"_", "m", "a", "t", "r", "i", "x">>)
         \/ StartsWith(key, <<"m", "a", "t", "r", "i", "x", "_", "t", "y", "p", "e", "_", "s", "a", "m", "p", "l", "e", "_">>)
         \/ EndsWith(key, <<"_", "m", "a", "t", "r", "i", "x", "_", "t", "y", "p", "e", "_", "s", "a", "m", "p", "l", "e">>)
         \/ key = <<"m", "a", "t", "r", "i", "x">>,
         "Matrix">>
    \* line 1052
    ,  <<\/ StartsWith(key, <<"c", "o", "m", "p", "_", "g", "r", "a", "b", "_">>)
         \/ EndsWith(key, <<"_", "c", "o", "m", "p", "_", "g", "r", "a", "b">>)
         \/ StartsWith(key, <<"g", "r", "a", "b", "_", "c", "o", "m", "p", "_">>)
         \/ EndsWith(key, <<"_", "g", "r", "a", "b", "_", "c", "o", "m", "p">>)
         \/ key \in {<<"c", "o", "m", "p", "/", "g", "r", "a", "b">>,
                     <<"c", "o", "m", "p", "_", "g", "r", "a", "b">>,
                     <<"c", "o", "m", "p", "o", "s", "i", "t", "e", "_", "g", "r", "a", "b">>,
                     <<"g", "r", "a", "b", "_", "c", "o", "m", "p">>},
         "Comp/Grab">>
    \* line 1056
    ,  <<\/ StartsWith(key, <<"c", "o", "l", "l", "e", "c", "t", "e", "d", "_", "d", "a", "t", "e", "_", "s", "t", "a", "r", "t", "_">>)
         \/ EndsWith(key, <<"_", "c", "o", "l", "l", "e", "c", "t", "e", "d", "_", "d", "a", "t", "e", "_", "s", "t", "a", "r", "t">>)
         \/ StartsWith(key, <<"c", "o", "l", "l", "e", "c", "t", "e", "d", "_", "d", "a", "t", "e", "_", "m", "f", "_", "p", "_", "i">>)
         \/ EndsWith(key, <<"_", "c", "o", "l", "l", "e", "c", "t", "e", "d", "_", "d", "a", "t", "e", "_", "m", "f", "_", "p", "_", "i">>)
         \/ StartsWith(key, <<"d", "a", "t", "e", "_", "s", "h", "_", "5", "0">>)
         \/ EndsWith(key, <<"_", "d", "a", "t", "e", "_", "s", "h", "_", "5", "0">>)
         \/ StartsWith(key, <<"d", "a", "t", "e", "_", "c", "o", "l", "l", "e", "c", "t", "e", "d", "_", "s", "h", "_", "5", "0">>)
         \/ EndsWith(key, <<"_", "d", "a", "t", "e", "_", "c", "o", "l", "l", "e", "c", "t", "e", "d", "_", "s", "h", "_", "5", "0">>)
         \/ StartsWith(key, <<"c", "o", "m", "p", "o", "s", "i", "t", "e", "_", "s", "t", "a", "r", "t", "_", "d", "a", "t", "e", "_">>)
         \/ EndsWith(key, <<"_", "c", "o", "m", "p", "o", "s", "i", "t", "e", "_", "s", "t", "a", "r", "t", "_", "d", "a", "t", "e">>)
         \/ StartsWith(key, <<"c", "o", "l", "l", "e", "c", "t", "e", "d", "_", "a", "s", "_", "c", "o", "m", "p", "o", "s", "i", "t", "e", "_", "s", "t", "a", "r", "t", "_", "d", "a", "t", "e", "_">>)
         \/ EndsWith(key, <<"_", "c", "o", "l", "l", "e", "c", "t", "e", "d", "_", "a", "s", "_", "c", "o", "m", "p", "o", "s", "i", "t", "e", "_", "s", "t", "a", "r", "t", "_", "d", "a", "t", "e">>)
         \/ StartsWith(key, <<"c", "o", "l", "l", "e", "c", "t", "e", "d", "_", "o", "r", "_", "c", "o", "m", "p", "o", "s", "i", "t", "e", "_", "s", "t", "a", "r", "t", "_", "d", "a", "t", "e", "_">>)
         \/ EndsWith(key, <<"_", "c", "o", "l", "l", "e", "c", "t", "e", "d", "_", "o", "r", "_", "c", "o", "m", "p", "o", "s", "i", "t", "e", "_", "s", "t", "a", "r", "t", "_", "d", "a", "t", "e">>)
         \/ StartsWith(key, <<"c", "o", "l", "l", "e", "c", "t", "e", "d", "_", "d", "a", "t", "e", "_">>)
         \/ EndsWith(key, <<"_", "c", "o", "l", "l", "e", "c", "t", "e", "d", "_", "d", "a", "t", "e">>)
         \/ key \in {<<"c", "o", "m", "p", "o", "s", "i", "t", "e", "_", "s", "t", "a", "r", "t", "_", "d", "a", "t", "e">>,
                     <<"c", "o", "m", "p", "o", "s", "i", "t", "e", " ", "s", "t", "a", "r", "t", " ", "d", "a", "t", "e">>,
                     <<"c", "o", "l", "l", "e", "c", "t", "e", "d", "_", "d", "a", "t", "e", "_", "m", "f", "_", "p", "_", "i">>,
                     <<"d", "a", "t", "e", "_", "s", "h", "_", "5", "0">>,
                     <<"d", "a", "t", "e", "_", "c", "o", "l", "l", "e", "c", "t", "e", "d", "_", "s", "h", "_", "5", "0">>},
         "Composite Start Date">>
    \* line 1066
    ,  <<\/ StartsWith(key, <<"c", "o", "l", "l", "e", "c", "t", "e", "d", "_", "t", "i", "m", "e", "_", "s", "t", "a", "r", "t", "_">>)
         \/ EndsWith(key, <<"_", "c", "o", "l", "l", "e", "c", "t", "e", "d", "_", "t", "i", "m", "e", "_", "s", "t", "a", "r", "t">>)
         \/ StartsWith(key, <<"c", "o", "l", "l", "e", "c", "t", "e", "d", "_", "t", "i", "m", "e", "_", "m", "f", "_", "p", "_", "i">>)
         \/ EndsWith(key, <<"_", "c", "o", "l", "l", "e", "c", "t", "e", "d", "_", "t", "i", "m", "e", "_", "m", "f", "_", "p", "_", "i">>)
         \/ StartsWith(key, <<"t", "i", "m", "e", "_", "s", "h", "_", "5", "0">>)
         \/ EndsWith(key, <<"_", "t", "i", "m", "e", "_", "s", "h", "_", "5", "0">>)
         \/ StartsWith(key, <<"t", "i", "m", "e", "_", "c", "o", "l", "l", "e", "c", "t", "e", "d", "_", "s", "h", "_", "5", "0">>)
         \/ EndsWith(key, <<"_", "t", "i", "m", "e", "_", "c", "o", "l", "l", "e", "c", "t", "e", "d", "_", "s", "h", "_", "5", "0">>)
         \/ StartsWith(key, <<"c", "o", "m", "p", "o", "s", "i", "t", "e", "_", "s", "t", "a", "r", "t", "_", "t", "i", "m", "e", "_">>)
         \/ EndsWith(key, <<"_", "c", "o", "m", "p", "o", "s", "i", "t", "e", "_", "s", "t", "a", "r", "t", "_", "t", "i", "m", "e">>)
         \/ StartsWith(key, <<"c", "o", "l", "l", "e", "c", "t", "e", "d", "_", "a", "s", "_", "c", "o", "m", "p", "o", "s", "i", "t", "e", "_", "s", "t", "a", "r", "t", "_", "t", "i", "m", "e", "_">>)
         \/ EndsWith(key, <<"_", "c", "o", "l", "l", "e", "c", "t", "e", "d", "_", "a", "s", "_", "c", "o", "m", "p", "o", "s", "i", "t", "e", "_", "s", "t", "a", "r", "t", "_", "t", "i", "m", "e">>)
         \/ StartsWith(key, <<"c", "o", "l", "l", "e", "c", "t", "e", "d", "_", "o", "r", "_", "c", "o", "m", "p", "o", "s", "i", "t", "e", "_", "s", "t", "a", "r", "t", "_", "t", "i", "m", "e", "_">>)
         \/ EndsWith(key, <<"_", "c", "o", "l", "l", "e", "c", "t", "e", "d", "_", "o", "r", "_", "c", "o", "m", "p", "o", "s", "i", "t", "e", "_", "s", "t", "a", "r", "t", "_", "t", "i", "m", "e">>)
         \/ StartsWith(key, <<"c", "o", "l", "l", "e", "c", "t", "e", "d", "_", "t", "i", "m", "e", "_">>)
         \/ EndsWith(key, <<"_", "c", "o", "l", "l", "e", "c", "t", "e", "d", "_", "t", "i", "m", "e">>)
         \/ key = <<"t", "i", "m", "e", "_", "c", "o", "l", "l", "e", "c", "t", "e", "d", "_", "c", "o", "m", "p", "o", "s", "i", "t", "e", "_", "s", "t", "a", "r", "t">>
         \/ key \in {<<"c", "o", "m", "p", "o", "s", "i", "t", "e", "_", "s", "t", "a", "r", "t", "_", "t", "i", "m", "e">>,
                     <<"c", "o", "m", "p", "o", "s", "i", "t", "e", " ", "s", "t", "a", "r", "t", " ", "t", "i", "m", "e">>,
                     <<"c", "o", "l", "l", "e", "c", "t", "e", "d", "_", "t", "i", "m", "e", "_", "m", "f", "_", "p", "_", "i">>,
                     <<"t", "i", "m", "e", "_", "s", "h", "_", "5", "0">>,
                     <<"t", "i", "m", "e", "_", "c", "o", "l", "l", "e", "c", "t", "e", "d", "_", "s", "h", "_", "5", "0">>},
         "Composite Start Time">>
    \* line 1076
    ,  <<\/ StartsWith(key, <<"c", "o", "l", "l", "e", "c", "t", "e", "d", "_", "d", "a", "t", "e", "_", "e", "n", "d", "_">>)
         \/ EndsWith(key, <<"_", "c", "o", "l", "l", "e", "c", "t", "e", "d", "_", "d", "a", "t", "e", "_", "e", "n", "d">>)
         \/ StartsWith(key, <<"c", "o", "l", "l", "e", "c", "t", "e", "d", "_", "a", "s", "_", "c", "o", "m", "p", "o", "s", "i", "t", "e", "_", "e", "n", "d", "_", "d", "a", "t", "e", "_">>)
         \/ EndsWith(key, <<"_", "c", "o", "l", "l", "e", "c", "t", "e", "d", "_", "a", "s", "_", "c", "o", "m", "p", "o", "s", "i", "t", "e", "_", "e", "n", "d", "_", "d", "a", "t", "e">>)
         \/ StartsWith(key, <<"c", "o", "l", "l", "e", "c", "t", "e", "d", "_", "a", "t", "_", "c", "o", "m", "p", "o", "s", "i", "t", "e", "_", "e", "n", "d", "_", "d", "a", "t", "e", "_">>)
         \/ EndsWith(key, <<"_", "c", "o", "l", "l", "e", "c", "t", "e", "d", "_", "a", "t", "_", "c", "o", "m", "p", "o", "s", "i", "t", "e", "_", "e", "n", "d", "_", "d", "a", "t", "e">>)
         \/ StartsWith(key, <<"c", "o", "l", "l", "e", "c", "t", "e", "d", "_", "o", "r", "_", "c", "o", "m", "p", "o", "s", "i", "t", "e", "_", "e", "n", "d", "_", "d", "a", "t", "e", "_">>)
         \/ EndsWith(key, <<"_", "c", "o", "l", "l", "e", "c", "t", "e", "d", "_", "o", "r", "_", "c", "o", "m", "p", "o", "s", "i", "t", "e", "_", "e", "n", "d", "_", "d", "a", "t", "e">>)
         \/ StartsWith(key, <<"c", "o", "m", "p", "o", "s", "i", "t", "e", "_", "e", "n", "d", "_", "d", "a", "t", "e", "_">>)
         \/ EndsWith(key, <<"_", "c", "o", "m", "p", "o", "s", "i", "t", "e", "_", "e", "n", "d", "_", "d", "a", "t", "e">>)
         \/ key \in {<<"c", "o", "m", "p", "o", "s", "i", "t", "e", "_", "e", "n", "d", "_", "d", "a", "t", "e">>,
                     <<"c", "o", "m", "p", "o", "s", "i", "t", "e", " ", "e", "n", "d", " ", "d", "a", "t", "e">>,
                     <<"c", "o", "l", "l", "e", "c", "t", "e", "d", "_", "c", "o", "m", "p", "o", "s", "i", "t", "e", "_", "e", "n", "d", "_", "d", "a", "t", "e">>,
                     <<"c", "o", "l", "l", "e", "c", "t", "e", "d", " ", "o", "r", " ", "c", "o", "m", "p", "o", "s", "i", "t", "e", " ", "e", "n", "d", " ", "d", "a", "t", "e">>,
                     <<"d", "a", "t", "e", "_", "c", "o", "l", "l", "e", "c", "t", "e", "d", "_", "c", "o", "m", "p", "o", "s", "i", "t", "e", "_", "e", "n", "d">>,
                     <<"c", "o", "l", "l", "e", "c", "t", "e", "d", "_", "o", "r", "_", "c", "o", "m", "p", "o", "s", "i", "t", "e", "_", "e", "n", "d", "_", "d", "a", "t", "e">>}
         \/ StartsWith(key, <<"c", "o", "l", "l", "e", "c", "t", "e", "d", "_", "c", "o", "m", "p", "o", "s", "i", "t", "e", "_", "e", "n", "d", "_", "d", "a", "t", "e", "_">>),
         "Composite or Collected End Date">>
    \* line 1084
    ,  <<\/ StartsWith(key, <<"c", "o", "l", "l", "e", "c", "t", "e", "d", "_", "t", "i", "m", "e", "_", "e", "n", "d", "_">>)
         \/ EndsWith(key, <<"_", "c", "o", "l", "l", "e", "c", "t", "e", "d", "_", "t", "i", "m", "e", "_", "e", "n", "d">>)
         \/ StartsWith(key, <<"c", "o", "l", "l", "e", "c", "t", "e", "d", "_", "a", "s", "_", "c", "o", "m", "p", "o", "s", "i", "t", "e", "_", "e", "n", "d", "_", "t", "i", "m", "e", "_">>)
         \/ EndsWith(key, <<"_", "c", "o", "l", "l", "e", "c", "t", "e", "d", "_", "a", "s", "_", "c", "o", "m", "p", "o", "s", "i", "t", "e", "_", "e", "n", "d", "_", "t", "i", "m", "e">>)
         \/ StartsWith(key, <<"c", "o", "l", "l", "e", "c", "t", "e", "d", "_", "a", "t", "_", "c", "o", "m", "p", "o", "s", "i", "t", "e", "_", "e", "n", "d", "_", "t", "i", "m", "e", "_">>)
         \/ EndsWith(key, <<"_", "c", "o", "l", "l", "e", "c", "t", "e", "d", "_", "a", "t", "_", "c", "o", "m", "p", "o", "s", "i", "t", "e", "_", "e", "n", "d", "_", "t", "i", "m", "e">>)
         \/ StartsWith(key, <<"c", "o", "l", "l", "e", "c", "t", "e", "d", "_", "o", "r", "_", "c", "o", "m", "p", "o", "s", "i", "t", "e", "_", "e", "n", "d", "_", "t", "i", "m", "e", "_">>)
         \/ EndsWith(key, <<"_", "c", "o", "l", "l", "e", "c", "t", "e", "d", "_", "o", "r", "_", "c", "o", "m", "p", "o", "s", "i", "t", "e", "_", "e", "n", "d", "_", "t", "i", "m", "e">>)
         \/ StartsWith(key, <<"c", "o", "m", "p", "o", "s", "i", "t", "e", "_", "e", "n", "d", "_", "t", "i", "m", "e", "_">>)
         \/ EndsWith(key, <<"_", "c", "o", "m", "p", "o", "s", "i", "t", "e", "_", "e", "n", "d", "_", "t", "i", "m", "e">>)
         \/ key = <<"t", "i", "m", "e", "_", "c", "o", "l", "l", "e", "c", "t", "e", "d", "_", "c", "o", "m", "p", "o", "s", "i", "t", "e", "_", "e", "n", "d">>
         \/ key \in {<<"c", "o", "m", "p", "o", "s", "i", "t", "e", "_", "e", "n", "d", "_", "t", "i", "m", "e">>,
                     <<"c", "o", "m", "p", "o", "s", "i", "t", "e", " ", "e", "n", "d", " ", "t", "i", "m", "e">>,
                     <<"c", "o", "l", "l", "e", "c", "t", "e", "d", "_", "c", "o", "m", "p", "o", "s", "i", "t", "e", "_", "e", "n", "d", "_", "t", "i", "m", "e">>,
                     <<"c", "o", "l", "l", "e", "c", "t", "e", "d", " ", "o", "r", " ", "c", "o", "m", "p", "o", "s", "i", "t", "e", " ", "e", "n", "d", " ", "t", "i", "m", "e">>,
                     <<"c", "o", "l", "l", "e", "c", "t", "e", "d", "_", "o", "r", "_", "c", "o", "m", "p", "o", "s", "i", "t", "e", "_", "e", "n", "d", "_", "t", "i", "m", "e">>}
         \/ StartsWith(key, <<"c", "o", "l", "l", "e", "c", "t", "e", "d", "_", "c", "o", "m", "p", "o", "s", "i", "t", "e", "_", "e", "n", "d", "_", "t", "i", "m", "e", "_">>),
         "Composite or Collected End Time">>
    \* line 1093
    ,  <<key = <<"c", "o", "l", "l", "e", "c", "t", "e", "d", "_", "o", "r", "_", "c", "o", "m", "p", "o", "s", "i", "t", "e", "_", "e", "n", "d", "_", "d", "a", "t", "e">>,
         "Composite or Collected End Date">>
    \* line 1095
    ,  <<key = <<"c", "o", "l", "l", "e", "c", "t", "e", "d", "_", "o", "r", "_", "c", "o", "m", "p", "o", "s", "i", "t", "e", "_", "e", "n", "d", "_", "t", "i", "m", "e">>,
         "Composite or Collected End Time">>
    \* line 1098
    ,  <<\/ StartsWith(key, <<"c", "o", "l", "l", "e", "c", "t", "e", "d", "_", "o", "r", "_", "c", "o", "m", "p", "o", "s", "i", "t", "e", "_", "e", "n", "d", "_", "d", "a", "t", "e", "_", "l", "a", "j", "_", "4", "1", "0">>)
         \/ EndsWith(key, <<"_", "c", "o", "l", "l", "e", "c", "t", "e", "d", "_", "o", "r", "_", "c", "o", "m", "p", "o", "s", "i", "t", "e", "_", "e", "n", "d", "_", "d", "a", "t", "e", "_", "l", "a", "j", "_", "4", "1", "0">>),
         "Composite or Collected End Date">>
    \* line 1100
    ,  <<\/ StartsWith(key, <<"c", "o", "l", "l", "e", "c", "t", "e", "d", "_", "o", "r", "_", "c", "o", "m", "p", "o", "s", "i", "t", "e", "_", "e", "n", "d", "_", "t", "i", "m", "e", "_", "l", "a", "j", "_", "4", "1", "0">>)
         \/ EndsWith(key, <<"_", "c", "o", "l", "l", "e", "c", "t", "e", "d", "_", "o", "r", "_", "c", "o", "m", "p", "o", "s", "i", "t", "e", "_", "e", "n", "d", "_", "t", "i", "m", "e", "_", "l", "a", "j", "_", "4", "1", "0">>),
         "Composite or Collected End Time">>
    \* line 1102
    ,  <<\/ StartsWith(key, <<"c", "o", "l", "l", "e", "c", "t", "e", "d", "_", "a", "t", "_", "c", "o", "m", "p", "o", "s", "i", "t", "e", "_", "e", "n", "d", "_", "d", "a", "t", "e", "_", "l", "a", "j", "_", "4", "1", "0">>)
         \/ EndsWith(key, <<"_", "c", "o", "l", "l", "e", "c", "t", "e", "d", "_", "a", "t", "_", "c", "o", "m", "p", "o", "s", "i", "t", "e", "_", "e", "n", "d", "_", "d", "a", "t", "e", "_", "l", "a", "j", "_", "4", "1", "0">>),
         "Composite or Collected End Date">>
    \* line 1104
    ,  <<\/ StartsWith(key, <<"c", "o", "l", "l", "e", "c", "t", "e", "d", "_", "a", "t", "_", "c", "o", "m", "p", "o", "s", "i", "t", "e", "_", "e", "n", "d", "_", "t", "i", "m", "e", "_", "l", "a", "j", "_", "4", "1", "0">>)
         \/ EndsWith(key, <<"_", "c", "o", "l", "l", "e", "c", "t", "e", "d", "_", "a", "t", "_", "c", "o", "m", "p", "o", "s", "i", "t", "e", "_", "e", "n", "d", "_", "t", "i", "m", "e", "_", "l", "a", "j", "_", "4", "1", "0">>),
         "Composite or Collected End Time">>
    \* line 1106
    ,  <<\/ StartsWith(key, <<"c", "o", "l", "l", "e", "c", "t", "e", "d", "_", "c", "o", "m", "p", "o", "s", "i", "t", "e", "_", "e", "n", "d", "_", "d", "a", "t", "e", "_", "y", "o", "t", "_", "8", "1", "0">>)
         \/ EndsWith(key, <<"_", "c", "o", "l", "l", "e", "c", "t", "e", "d", "_", "c", "o", "m", "p", "o", "s", "i", "t", "e", "_", "e", "n", "d", "_", "d", "a", "t", "e", "_", "y", "o", "t", "_", "8", "1", "0">>),
         "Composite or Collected End Date">>
    \* line 1108
    ,  <<\/ StartsWith(key, <<"c", "o", "l", "l", "e", "c", "t", "e", "d", "_", "c", "o", "m", "p", "o", "s", "i", "t", "e", "_", "e", "n", "d", "_", "t", "i", "m", "e", "_", "y", "o", "t", "_", "8", "1", "0">>)
         \/ EndsWith(key, <<"_", "c", "o", "l", "l", "e", "c", "t", "e", "d", "_", "c", "o", "m", "p", "o", "s", "i", "t", "e", "_", "e", "n", "d", "_", "t", "i", "m", "e", "_", "y", "o", "t", "_", "8", "1", "0">>),
         "Composite or Collected End Time">>
    \* line 1110
    ,  <<\/ StartsWith(key, <<"c", "o", "m", "p", "o", "s", "i", "t", "e", "_", "s", "t", "a", "r", "t", "_", "d", "a", "t", "e", "_", "l", "a", "j", "_", "4", "1", "0">>)
         \/ EndsWith(key, <<"_", "c", "o", "m", "p", "o", "s", "i", "t", "e", "_", "s", "t", "a", "r", "t", "_", "d", "a", "t", "e", "_", "l", "a", "j", "_", "4", "1", "0">>),
         "Composite Start Date">>
    \* line 1112
    ,  <<\/ StartsWith(key, <<"c", "o", "m", "p", "o", "s", "i", "t", "e", "_", "s", "t", "a", "r", "t", "_", "t", "i", "m", "e", "_", "l", "a", "j", "_", "4", "1", "0">>)
         \/ EndsWith(key, <<"_", "c", "o", "m", "p", "o", "s", "i", "t", "e", "_", "s", "t", "a", "r", "t", "_", "t", "i", "m", "e", "_", "l", "a", "j", "_", "4", "1", "0">>),
         "Composite Start Time">>
    \* line 1114
    ,  <<\/ StartsWith(key, <<"c", "o", "l", "l", "e", "c", "t", "e", "d", "_", "a", "s", "_", "c", "o", "m", "p", "o", "s", "i", "t", "e", "_", "s", "t", "a", "r", "t", "_", "d", "a", "t", "e", "_", "e", "q", "o", "_", "2", "7", "1">>)
         \/ EndsWith(key, <<"_", "c", "o", "l", "l", "e", "c", "t", "e", "d", "_", "a", "s", "_", "c", "o", "m", "p", "o", "s", "i", "t", "e", "_", "s", "t", "a", "r", "t", "_", "d", "a", "t", "e", "_", "e", "q", "o", "_", "2", "7", "1">>),
         "Composite Start Date">>
    \* line 1116
    ,  <<\/ StartsWith(key, <<"c", "o", "l", "l", "e", "c", "t", "e", "d", "_", "a", "s", "_", "c", "o", "m", "p", "o", "s", "i", "t", "e", "_", "s", "t", "a", "r", "t", "_", "t", "i", "m", "e", "_", "e", "q", "o", "_", "2", "7", "1">>)
         \/ EndsWith(key, <<"_", "c", "o", "l", "l", "e", "c", "t", "e", "d", "_", "a", "s", "_", "c", "o", "m", "p", "o", "s", "i", "t", "e", "_", "s", "t", "a", "r", "t", "_", "t", "i", "m", "e", "_", "e", "q", "o", "_", "2", "7", "1">>),
         "Composite Start Time">>
    \* line 1118
    ,  <<\/ StartsWith(key, <<"c", "o", "l", "l", "e", "c", "t", "e", "d", "_", "a", "s", "_", "c", "o", "m", "p", "o", "s", "i", "t", "e", "_", "s", "t", "a", "r", "t", "_", "d", "a", "t", "e", "_">>)
         \/ EndsWith(key, <<"_", "c", "o", "l", "l", "e", "c", "t", "e", "d", "_", "a", "s", "_", "c", "o", "m", "p", "o", "s", "i", "t", "e", "_", "s", "t", "a", "r", "t", "_", "d", "a", "t", "e">>),
         "Composite Start Date">>
    \* line 1120
    ,  <<\/ StartsWith(key, <<"c", "o", "l", "l", "e", "c", "t", "e", "d", "_", "a", "s", "_", "c", "o", "m", "p", "o", "s", "i", "t", "e", "_", "s", "t", "a", "r", "t", "_", "t", "i", "m", "e", "_">>)
         \/ EndsWith(key, <<"_", "c", "o", "l", "l", "e", "c", "t", "e", "d", "_", "a", "s", "_", "c", "o", "m", "p", "o", "s", "i", "t", "e", "_", "s", "t", "a", "r", "t", "_", "t", "i", "m", "e">>),
         "Composite Start Time">>
    \* line 1122
    ,  <<\/ StartsWith(key, <<"c", "o", "l", "l", "e", "c", "t", "e", "d", "_", "d", "a", "t", "e", "_", "m", "w">>)
         \/ EndsWith(key, <<"_", "c", "o", "l", "l", "e", "c", "t", "e", "d", "_", "d", "a", "t", "e", "_", "m", "w">>),
         "Composite Start Date">>
    \* line 1124
    ,  <<\/ StartsWith(key, <<"c", "o", "l", "l", "e", "c", "t", "e", "d", "_", "t", "i", "m", "e", "_", "m", "w">>)
         \/ EndsWith(key, <<"_", "c", "o", "l", "l", "e", "c", "t", "e", "d", "_", "t", "i", "m", "e", "_", "m", "w">>),
         "Composite Start Time">>
    \* line 1126
    ,  <<\/ StartsWith(key, <<"c", "o", "l", "l", "e", "c", "t", "e", "d", "_", "d", "a", "t", "e", "_", "s", "w">>)
         \/ EndsWith(key, <<"_", "c", "o", "l", "l", "e", "c", "t", "e", "d", "_", "d", "a", "t", "e", "_", "s", "w">>),
         "Composite Start Date">>
    \* line 1128
    ,  <<\/ StartsWith(key, <<"c", "o", "l", "l", "e", "c", "t", "e", "d", "_", "t", "i", "m", "e", "_", "s", "w">>)
         \/ EndsWith(key, <<"_", "c", "o", "l", "l", "e", "c", "t", "e", "d", "_", "t", "i", "m", "e", "_", "s", "w">>),
         "Composite Start Time">>
    \* line 1130
    ,  <<\/ StartsWith(key, <<"c", "o", "l", "l", "e", "c", "t", "e", "d", "_", "d", "a", "t", "e", "_", "s", "s">>)
         \/ EndsWith(key, <<"_", "c", "o", "l", "l", "e", "c", "t", "e", "d", "_", "d", "a", "t", "e", "_", "s", "s">>),
         "Composite Start Date">>
    \* line 1132
    ,  <<\/ StartsWith(key, <<"c", "o", "l", "l", "e", "c", "t", "e", "d", "_", "t", "i", "m", "e", "_", "s", "s">>)
         \/ EndsWith(key, <<"_", "c", "o", "l", "l", "e", "c", "t", "e", "d", "_", "t", "i", "m", "e", "_", "s", "s">>),
         "Composite Start Time">>
    \* line 1135
    ,  <<\/ StartsWith(key, <<"m", "a", "t", "r", "i", "x", "_", "g", "r", "a", "b", "_", "c", "o", "d", "e", "_">>)
         \/ EndsWith(key, <<"_", "m", "a", "t", "r", "i", "x", "_", "g", "r", "a", "b", "_", "c", "o", "d", "e">>),
         "Matrix">>
    \* line 1140
    ,  <<\/ StartsWith(key, <<"r", "e", "s", "u", "l", "t", "_", "u", "n", "i", "t", "s", "_">>)
         \/ EndsWith(key, <<"_", "r", "e", "s", "u", "l", "t", "_", "u", "n", "i", "t", "s">>),
         "Residual Chloride Result">>
    \* line 1145
    ,  <<\/ StartsWith(key, <<"g", "r", "a", "b", "_", "c", "o", "m", "p", "_">>)
         \/ EndsWith(key, <<"_", "g", "r", "a", "b", "_", "c", "o", "m", "p">>),
         "Comp/Grab">>
    \* line 1148
    ,  <<(StartsWith(key, <<"c", "o", "l", "l", "e", "c", "t", "e", "d", "_", "o", "r", "_", "c", "o", "m", "p", "o", "s", "i", "t", "e", "_", "e", "n", "d", "_", "d", "a", "t", "e", "_">>) /\ EndsWith(key, IdSuffix(sample_id))),
         "Composite or Collected End Date">>
    \* line 1150
    ,  <<(StartsWith(key, <<"c", "o", "l", "l", "e", "c", "t", "e", "d", "_", "o", "r", "_", "c", "o", "m", "p", "o", "s", "i", "t", "e", "_", "e", "n", "d", "_", "t", "i", "m", "e", "_">>) /\ EndsWith(key, IdSuffix(sample_id))),
         "Composite or Collected End Time">>
    \* line 1153
    ,  <<\/ StartsWith(key, <<"n", "u", "m", "b", "e", "r", "_", "o", "f", "_", "c", "o", "n", "t", "a", "i", "n", "e", "r", "s", "_">>)
         \/ EndsWith(key, <<"_", "n", "u", "m", "b", "e", "r", "_", "o", "f", "_", "c", "o", "n", "t", "a", "i", "n", "e", "r", "s">>)
         \/ StartsWith(key, <<"n", "u", "m", "_", "c", "o", "n", "t", "a", "i", "n", "e", "r", "s", "_">>)
         \/ EndsWith(key, <<"_", "n", "u", "m", "_", "c", "o", "n", "t", "a", "i", "n", "e", "r", "s">>)
         \/ StartsWith(key, <<"n", "u", "m", "_", "c", "o", "n", "t", "_">>)
         \/ EndsWith(key, <<"_", "n", "u", "m", "_", "c", "o", "n", "t">>)
         \/ StartsWith(key, <<"c", "o", "n", "t", "a", "i", "n", "e", "r", "_", "c", "o", "u", "n", "t", "_">>)
         \/ EndsWith(key, <<"_", "c", "o", "n", "t", "a", "i", "n", "e", "r", "_", "c", "o", "u", "n", "t">>)
         \/ key \in {<<"n", "u", "m", "b", "e", "r", "_", "o", "f", "_", "c", "o", "n", "t", "a", "i", "n", "e", "r", "s">>,
                     <<"n", "u", "m", "_", "c", "o", "n", "t", "a", "i", "n", "e", "r", "s">>,
                     <<"n", "u", "m", "_", "c", "o", "n", "t">>,
                     <<"c", "o", "n", "t", "a", "i", "n", "e", "r", "_", "c", "o", "u", "n", "t">>,
                     <<"#", " ", "c", "o", "n", "t">>,
                     <<"c", "o", "n", "t">>},
         "# Cont">>
    \* line 1160
    ,  <<\/ StartsWith(key, <<"r", "e", "s", "u", "l", "t", "_">>)
         \/ EndsWith(key, <<"_", "r", "e", "s", "u", "l", "t">>)
         \/ StartsWith(key, <<"r", "e", "s", "i", "d", "u", "a", "l", "_", "c", "h", "l", "o", "r", "i", "d", "e", "_", "r", "e", "s", "u", "l", "t", "_">>)
         \/ EndsWith(key, <<"_", "r", "e", "s", "i", "d", "u", "a", "l", "_", "c", "h", "l", "o", "r", "i", "d", "e", "_", "r", "e", "s", "u", "l", "t">>)
         \/ key \in {<<"r", "e", "s", "u", "l", "t">>,
                     <<"r", "e", "s", "i", "d", "u", "a", "l", "_", "c", "h", "l", "o", "r", "i", "d", "e", "_", "r", "e", "s", "u", "l", "t">>,
                     <<"r", "e", "s", "i", "d", "u", "a", "l", " ", "c", "h", "l", "o", "r", "i", "d", "e", " ", "r", "e", "s", "u", "l", "t">>},
         "Residual Chloride Result">>
    \* line 1165
    ,  <<\/ StartsWith(key, <<"u", "n", "i", "t", "s", "_">>)
         \/ EndsWith(key, <<"_", "u", "n", "i", "t", "s">>)
         \/ StartsWith(key, <<"r", "e", "s", "i", "d", "u", "a", "l", "_", "c", "h", "l", "o", "r", "i", "d", "e", "_", "u", "n", "i", "t", "s", "_">>)
         \/ EndsWith(key, <<"_", "r", "e", "s", "i", "d", "u", "a", "l", "_", "c", "h", "l", "o", "r", "i", "d", "e", "_", "u", "n", "i", "t", "s">>)
         \/ key \in {<<"u", "n", "i", "t", "s">>,
                     <<"r", "e", "s", "i", "d", "u", "a", "l", "_", "c", "h", "l", "o", "r", "i", "d", "e", "_", "u", "n", "i", "t", "s">>,
                     <<"r", "e", "s", "i", "d", "u", "a", "l", " ", "c", "h", "l", "o", "r", "i", "d", "e", " ", "u", "n", "i", "t", "s">>},
         "Residual Chloride Units">>
    \* line 1170
    ,  <<(StartsWith(key, <<"d", "w", "_">>) /\ EndsWith(key, <<"_", "m", "a", "t", "r", "i", "x">>)),
         "Matrix">>
    \* line 1172
    ,  <<\/ StartsWith(key, <<"m", "a", "t", "r", "i", "x", "_", "d", "w", "-">>)
         \/ StartsWith(key, <<"m", "a", "t", "r", "i", "x", "_", "d", "w", "_">>),
         "Matrix">>
    \* line 1175
    ,  <<(StartsWith(key, <<"s", "a", "m", "p", "l", "e", "_">>) /\ EndsWith(key, <<"_", "m", "a", "t", "r", "i", "x", "_", "c", "o", "d", "e">>)),
         "Matrix">>
    \* line 1178
    ,  <<(StartsWith(key, <<"s", "a", "m", "p", "l", "e", "_">>) /\ (EndsWith(key, <<"_", "c", "o", "l", "l", "e", "c", "t", "e", "d", "_", "s", "t", "a", "r", "t", "_", "d", "a", "t", "e">>) \/ EndsWith(key, <<"-", "c", "o", "l", "l", "e", "c", "t", "e", "d", "_", "s", "t", "a", "r", "t", "_", "d", "a", "t", "e">>))),
         "Composite Start Date">>
    \* line 1180
    ,  <<(StartsWith(key, <<"s", "a", "m", "p", "l", "e", "_">>) /\ (EndsWith(key, <<"_", "c", "o", "l", "l", "e", "c", "t", "e", "d", "_", "s", "t", "a", "r", "t", "_", "t", "i", "m", "e">>) \/ EndsWith(key, <<"-", "c", "o", "l", "l", "e", "c", "t", "e", "d", "_", "s", "t", "a", "r", "t", "_", "t", "i", "m", "e">>))),
         "Composite Start Time">>
    \* line 1183
    ,  <<\/ StartsWith(key, <<"c", "o", "l", "l", "e", "c", "t", "e", "d", "_", "s", "t", "a", "r", "t", "_", "d", "a", "t", "e", "_">>)
         \/ EndsWith(key, <<"_", "c", "o", "l", "l", "e", "c", "t", "e", "d", "_", "s", "t", "a", "r", "t", "_", "d", "a", "t", "e">>)
         \/ StartsWith(key, <<"c", "o", "l", "l", "e", "c", "t", "e", "d", "_", "s", "t", "a", "r", "t", "_", "d", "a", "t", "e", "-">>)
         \/ EndsWith(key, <<"-", "c", "o", "l", "l", "e", "c", "t", "e", "d", "_", "s", "t", "a", "r", "t", "_", "d", "a", "t", "e">>),
         "Composite Start Date">>
    \* line 1185
    ,  <<\/ StartsWith(key, <<"c", "o", "l", "l", "e", "c", "t", "e", "d", "_", "s", "t", "a", "r", "t", "_", "t", "i", "m", "e", "_">>)
         \/ EndsWith(key, <<"_", "c", "o", "l", "l", "e", "c", "t", "e", "d", "_", "s", "t", "a", "r", "t", "_", "t", "i", "m", "e">>)
         \/ StartsWith(key, <<"c", "o", "l", "l", "e", "c", "t", "e", "d", "_", "s", "t", "a", "r", "t", "_", "t", "i", "m", "e", "-">>)
         \/ EndsWith(key, <<"-", "c", "o", "l", "l", "e", "c", "t", "e", "d", "_", "s", "t", "a", "r", "t", "_", "t", "i", "m", "e">>),
         "Composite Start Time">>
    \* line 1188
    ,  <<\/ StartsWith(key, <<"c", "o", "l", "l", "e", "c", "t", "e", "d", "_", "e", "n", "d", "_", "d", "a", "t", "e", "_">>)
         \/ EndsWith(key, <<"_", "c", "o", "l", "l", "e", "c", "t", "e", "d", "_", "e", "n", "d", "_", "d", "a", "t", "e">>)
         \/ StartsWith(key, <<"c", "o", "l", "l", "e", "c", "t", "e", "d", "_", "e", "n", "d", "_", "d", "a", "t", "e", "-">>)
         \/ EndsWith(key, <<"-", "c", "o", "l", "l", "e", "c", "t", "e", "d", "_", "e", "n", "d", "_", "d", "a", "t", "e">>),
         "Composite or Collected End Date">>
    \* line 1190
    ,  <<\/ StartsWith(key, <<"c", "o", "l", "l", "e", "c", "t", "e", "d", "_", "e", "n", "d", "_", "t", "i", "m", "e", "_">>)
         \/ EndsWith(key, <<"_", "c", "o", "l", "l", "e", "c", "t", "e", "d", "_", "e", "n", "d", "_", "t", "i", "m", "e">>)
         \/ StartsWith(key, <<"c", "o", "l", "l", "e", "c", "t", "e", "d", "_", "e", "n", "d", "_", "t", "i", "m", "e", "-">>)
         \/ EndsWith(key, <<"-", "c", "o", "l", "l", "e", "c", "t", "e", "d", "_", "e", "n", "d", "_", "t", "i", "m", "e">>),
         "Composite or Collected End Time">>
    \* line 1192
    ,  <<(StartsWith(key, <<"d", "w", "_">>) /\ EndsWith(key, <<"_", "c", "o", "m", "p", "_", "g", "r", "a", "b">>)),
         "Comp/Grab">>
    \* line 1194
    ,  <<\/ StartsWith(key, <<"c", "o", "m", "p", "_", "g", "r", "a", "b", "_", "d", "w", "-">>)
         \/ StartsWith(key, <<"c", "o", "m", "p", "_", "g", "r", "a", "b", "_", "d", "w", "_">>),
         "Comp/Grab">>
    \* line 1196
    ,  <<(StartsWith(key, <<"d", "w", "_">>) /\ EndsWith(key, <<"_", "c", "o", "l", "l", "e", "c", "t", "e", "d", "_", "o", "r", "_", "c", "o", "m", "p", "o", "s", "i", "t", "e", "_", "e", "n", "d", "_", "d", "a", "t", "e">>)),
         "Composite or Collected End Date">>
    \* line 1198
    ,  <<\/ StartsWith(key, <<"c", "o", "l", "l", "e", "c", "t", "e", "d", "_", "c", "o", "m", "p", "o", "s", "i", "t", "e", "_", "e", "n", "d", "_", "d", "a", "t", "e", "_", "d", "w", "-">>)
         \/ StartsWith(key, <<"c", "o", "l", "l", "e", "c", "t", "e", "d", "_", "o", "r", "_", "c", "o", "m", "p", "o", "s", "i", "t", "e", "_", "e", "n", "d", "_", "d", "a", "t", "e", "_", "d", "w", "-">>)
         \/ StartsWith(key, <<"c", "o", "l", "l", "e", "c", "t", "e", "d", "_", "o", "r", "_", "c", "o", "m", "p", "o", "s", "i", "t", "e", "_", "e", "n", "d", "_", "d", "a", "t", "e", "_", "d", "w">>),
         "Composite or Collected End Date">>
    \* line 1200
    ,  <<(StartsWith(key, <<"d", "w", "_">>) /\ EndsWith(key, <<"_", "c", "o", "l", "l", "e", "c", "t", "e", "d", "_", "o", "r", "_", "c", "o", "m", "p", "o", "s", "i", "t", "e", "_", "e", "n", "d", "_", "t", "i", "m", "e">>)),
         "Composite or Collected End Time">>
    \* line 1202
    ,  <<\/ StartsWith(key, <<"c", "o", "l", "l", "e", "c", "t", "e", "d", "_", "c", "o", "m", "p", "o", "s", "i", "t", "e", "_", "e", "n", "d", "_", "t", "i", "m", "e", "_", "d", "w", "-">>)
         \/ StartsWith(key, <<"c", "o", "l", "l", "e", "c", "t", "e", "d", "_", "o", "r", "_", "c", "o", "m", "p", "o", "s", "i", "t", "e", "_", "e", "n", "d", "_", "t", "i", "m", "e", "_", "d", "w", "-">>)
         \/ StartsWith(key, <<"c", "o", "l", "l", "e", "c", "t", "e", "d", "_", "o", "r", "_", "c", "o", "m", "p", "o", "s", "i", "t", "e", "_", "e", "n", "d", "_", "t", "i", "m", "e", "_", "d", "w">>),
         "Composite or Collected End Time">>
    \* line 1204
    ,  <<\/ (StartsWith(key, <<"d", "w", "_">>) /\ EndsWith(key, <<"_", "n", "u", "m", "b", "e", "r", "_", "o", "f", "_", "c", "o", "n", "t", "a", "i", "n", "e", "r", "s">>))
         \/ StartsWith(key, <<"n", "u", "m", "b", "e", "r", "_", "o", "f", "_", "c", "o", "n", "t", "a", "i", "n", "e", "r", "s", "_", "d", "w">>)
         \/ StartsWith(key, <<"n", "u", "m", "_", "c", "o", "n", "t", "a", "i", "n", "e", "r", "s", "_", "d", "w">>)
         \/ StartsWith(key, <<"n", "u", "m", "_", "c", "o", "n", "t", "_", "d", "w">>),
         "# Cont">>
    \* line 1206
    ,  <<\/ StartsWith(key, <<"n", "u", "m", "b", "e", "r", "_", "o", "f", "_", "c", "o", "n", "t", "a", "i", "n", "e", "r", "s", "_", "d", "w", "-">>)
         \/ StartsWith(key, <<"n", "u", "m", "b", "e", "r", "_", "o", "f", "_", "c", "o", "n", "t", "a", "i", "n", "e", "r", "s", "_", "d", "w", "_">>)
         \/ StartsWith(key, <<"n", "u", "m", "_", "c", "o", "n", "t", "a", "i", "n", "e", "r", "s", "_", "d", "w", "-">>)
         \/ StartsWith(key, <<"n", "u", "m", "_", "c", "o", "n", "t", "a", "i", "n", "e", "r", "s", "_", "d", "w", "_">>)
         \/ StartsWith(key, <<"n", "u", "m", "_", "c", "o", "n", "t", "_", "d", "w", "-">>)
         \/ StartsWith(key, <<"n", "u", "m", "_", "c", "o", "n", "t", "_", "d", "w", "_">>),
         "# Cont">>
    \* line 1209
    ,  <<(key = <<"d", "a", "t", "e">> /\ sample_info["Composite or Collected End Date"] = NIL),
         "Composite or Collected End Date">>
    \* line 1211
    ,  <<(key = <<"t", "i", "m", "e">> /\ sample_info["Composite or Collected End Time"] = NIL),
         "Composite or Collected End Time">>
    \* line 1214
    ,  <<(StartsWith(key, <<"d", "a", "t", "e", "_">>) /\ sample_info["Composite or Collected End Date"] = NIL),
         "Composite or Collected End Date">>
    \* line 1216
    ,  <<(StartsWith(key, <<"t", "i", "m", "e", "_">>) /\ sample_info["Composite or Collected End Time"] = NIL),
         "Composite or Collected End Time">>
    \* line 1218
    ,  <<\/ StartsWith(key, <<"n", "u", "m", "b", "e", "r", "_", "c", "o", "n", "t", "a", "i", "n", "e", "r", "s", "_">>)
         \/ EndsWith(key, <<"_", "n", "u", "m", "b", "e", "r", "_", "c", "o", "n", "t", "a", "i", "n", "e", "r", "s">>)
         \/ StartsWith(key, <<"n", "u", "m", "b", "e", "r", "_", "c", "o", "n", "t", "a", "i", "n", "e", "r", "s", "-">>)
         \/ EndsWith(key, <<"-", "n", "u", "m", "b", "e", "r", "_", "c", "o", "n", "t", "a", "i", "n", "e", "r", "s">>)
         \/ key \in {<<"#", " ", "c", "o", "n", "t">>,
                     <<"#", " ", "c", "o", "n", "t", ".">>,
                     <<"c", "o", "n", "t">>,
                     <<"n", "u", "m", "b", "e", "r", "_", "o", "f", "_", "c", "o", "n", "t", "a", "i", "n", "e", "r", "s">>,
                     <<"n", "u", "m", "b", "e", "r", " ", "o", "f", " ", "c", "o", "n", "t", "a", "i", "n", "e", "r", "s">>,
                     <<"n", "u", "m", "_", "c", "o", "n", "t", "a", "i", "n", "e", "r", "s">>,
                     <<"#", "_", "c", "o", "n", "t">>},
         "# Cont">>
    \* line 1220
    ,  <<\/ StartsWith(key, <<"r", "e", "s", "i", "d", "u", "a", "l", "_", "c", "h", "l", "o", "r", "i", "n", "e", "_", "r", "e", "s", "u", "l", "t", "_">>)
         \/ EndsWith(key, <<"_", "r", "e", "s", "i", "d", "u", "a", "l", "_", "c", "h", "l", "o", "r", "i", "n", "e", "_", "r", "e", "s", "u", "l", "t">>)
         \/ key \in {<<"r", "e", "s", "u", "l", "t">>,
                     <<"r", "e", "s", "i", "d", "u", "a", "l", " ", "c", "h", "l", "o", "r", "i", "n", "e", " ", "r", "e", "s", "u", "l", "t">>,
                     <<"r", "e", "s", "i", "d", "u", "a", "l", " ", "c", "h", "l", "o", "r", "i", "d", "e", " ", "r", "e", "s", "u", "l", "t">>,
                     <<"r", "e", "s", "i", "d", "u", "a", "l", "_", "c", "h", "l", "o", "r", "i", "n", "e", "_", "r", "e", "s", "u", "l", "t">>,
                     <<"r", "e", "s", "i", "d", "u", "a", "l", "_", "c", "h", "l", "o", "r", "i", "d", "e", "_", "r", "e", "s", "u", "l", "t">>},
         "Residual Chloride Result">>
    \* line 1222
    ,  <<\/ StartsWith(key, <<"r", "e", "s", "i", "d", "u", "a", "l", "_", "c", "h", "l", "o", "r", "i", "n", "e", "_", "u", "n", "i", "t", "s", "_">>)
         \/ EndsWith(key, <<"_", "r", "e", "s", "i", "d", "u", "a", "l", "_", "c", "h", "l", "o", "r", "i", "n", "e", "_", "u", "n", "i", "t", "s">>)
         \/ key \in {<<"u", "n", "i", "t", "s">>,
                     <<"r", "e", "s", "i", "d", "u", "a", "l", " ", "c", "h", "l", "o", "r", "i", "n", "e", " ", "u", "n", "i", "t", "s">>,
                     <<"r", "e", "s", "i", "d", "u", "a", "l", " ", "c", "h", "l", "o", "r", "i", "d", "e", " ", "u", "n", "i", "t", "s">>,
                     <<"r", "e", "s", "i", "d", "u", "a", "l", "_", "c", "h", "l", "o", "r", "i", "n", "e", "_", "u", "n", "i", "t", "s">>,
                     <<"r", "e", "s", "i", "d", "u", "a", "l", "_", "c", "h", "l", "o", "r", "i", "d", "e", "_", "u", "n", "i", "t", "s">>},
         "Residual Chloride Units">>
    \* line 1225
    ,  <<\/ StartsWith(key, <<"s", "a", "m", "p", "l", "e", "_", "c", "o", "m", "m", "e", "n", "t", "_">>)
         \/ EndsWith(key, <<"_", "s", "a", "m", "p", "l", "e", "_", "c", "o", "m", "m", "e", "n", "t">>)
         \/ StartsWith(key, <<"c", "o", "m", "m", "e", "n", "t", "_">>)
         \/ EndsWith(key, <<"_", "c", "o", "m", "m", "e", "n", "t">>)
         \/ key \in {<<"s", "a", "m", "p", "l", "e", "_", "c", "o", "m", "m", "e", "n", "t">>,
                     <<"c", "o", "m", "m", "e", "n", "t">>,
                     <<"c", "o", "m", "m", "e", "n", "t", "s">>},
         "Sample Comment">>
    >>

\* The record is passed over by the second loop: its slot is filled
\* (lines 1236-1255).
AlreadyHave(sample_info, key) ==
    \* line 1236
    \/ /\ sample_info["Matrix"] # NIL
       /\ \/ StartsWith(key, <<"m", "a", "t", "r", "i", "x", "_">>)
          \/ EndsWith(key, <<"_", "m", "a", "t", "r", "i", "x">>)
          \/ key = <<"m", "a", "t", "r", "i", "x">>
    \* line 1238
    \/ /\ sample_info["Comp/Grab"] # NIL
       /\ \/ StartsWith(key, <<"c", "o", "m", "p", "_", "g", "r", "a", "b", "_">>)
          \/ EndsWith(key, <<"_", "c", "o", "m", "p", "_", "g", "r", "a", "b">>)
          \/ key \in {<<"c", "o", "m", "p", "/", "g", "r", "a", "b">>,
                      <<"c", "o", "m", "p", "_", "g", "r", "a", "b">>,
                      <<"c", "o", "m", "p", "o", "s", "i", "t", "e", "_", "g", "r", "a", "b">>}
    \* line 1240
    \/ /\ sample_info["Composite Start Date"] # NIL
       /\ \/ StartsWith(key, <<"c", "o", "l", "l", "e", "c", "t", "e", "d", "_", "d", "a", "t", "e", "_", "s", "t", "a", "r", "t", "_">>)
          \/ EndsWith(key, <<"_", "c", "o", "l", "l", "e", "c", "t", "e", "d", "_", "d", "a", "t", "e", "_", "s", "t", "a", "r", "t">>)
          \/ key \in {<<"c", "o", "m", "p", "o", "s", "i", "t", "e", "_", "s", "t", "a", "r", "t", "_", "d", "a", "t", "e">>,
                      <<"c", "o", "m", "p", "o", "s", "i", "t", "e", " ", "s", "t", "a", "r", "t", " ", "d", "a", "t", "e">>}
    \* line 1242
    \/ /\ sample_info["Composite Start Time"] # NIL
       /\ \/ StartsWith(key, <<"c", "o", "l", "l", "e", "c", "t", "e", "d", "_", "t", "i", "m", "e", "_", "s", "t", "a", "r", "t", "_">>)
          \/ EndsWith(key, <<"_", "c", "o", "l", "l", "e", "c", "t", "e", "d", "_", "t", "i", "m", "e", "_", "s", "t", "a", "r", "t">>)
          \/ key = <<"t", "i", "m", "e", "_", "c", "o", "l", "l", "e", "c", "t", "e", "d", "_", "c", "o", "m", "p", "o", "s", "i", "t", "e", "_", "s", "t", "a", "r", "t">>
          \/ key \in {<<"c", "o", "m", "p", "o", "s", "i", "t", "e", "_", "s", "t", "a", "r", "t", "_", "t", "i", "m", "e">>,
                      <<"c", "o", "m", "p", "o", "s", "i", "t", "e", " ", "s", "t", "a", "r", "t", " ", "t", "i", "m", "e">>}
    \* line 1244
    \/ /\ sample_info["Composite or Collected End Date"] # NIL
       /\ \/ StartsWith(key, <<"c", "o", "l", "l", "e", "c", "t", "e", "d", "_", "d", "a", "t", "e", "_", "e", "n", "d", "_">>)
          \/ EndsWith(key, <<"_", "c", "o", "l", "l", "e", "c", "t", "e", "d", "_", "d", "a", "t", "e", "_", "e", "n", "d">>)
          \/ key \in {<<"c", "o", "m", "p", "o", "s", "i", "t", "e", "_", "e", "n", "d", "_", "d", "a", "t", "e">>,
                      <<"c", "o", "m", "p", "o", "s", "i", "t", "e", " ", "e", "n", "d", " ", "d", "a", "t", "e">>,
                      <<"c", "o", "l", "l", "e", "c", "t", "e", "d", "_", "c", "o", "m", "p", "o", "s", "i", "t", "e", "_", "e", "n", "d", "_", "d", "a", "t", "e">>,
                      <<"c", "o", "l", "l", "e", "c", "t", "e", "d", " ", "o", "r", " ", "c", "o", "m", "p", "o", "s", "i", "t", "e", " ", "e", "n", "d", " ", "d", "a", "t", "e">>,
                      <<"d", "a", "t", "e", "_", "c", "o", "l", "l", "e", "c", "t", "e", "d", "_", "c", "o", "m", "p", "o", "s", "i", "t", "e", "_", "e", "n", "d">>,
                      <<"c", "o", "l", "l", "e", "c", "t", "e", "d", "_", "o", "r", "_", "c", "o", "m", "p", "o", "s", "i", "t", "e", "_", "e", "n", "d", "_", "d", "a", "t", "e">>}
          \/ StartsWith(key, <<"c", "o", "l", "l", "e", "c", "t", "e", "d", "_", "c", "o", "m", "p", "o", "s", "i", "t", "e", "_", "e", "n", "d", "_", "d", "a", "t", "e", "_">>)
    \* line 1246
    \/ /\ sample_info["Composite or Collected End Time"] # NIL
       /\ \/ StartsWith(key, <<"c", "o", "l", "l", "e", "c", "t", "e", "d", "_", "t", "i", "m", "e", "_", "e", "n", "d", "_">>)
          \/ EndsWith(key, <<"_", "c", "o", "l", "l", "e", "c", "t", "e", "d", "_", "t", "i", "m", "e", "_", "e", "n", "d">>)
          \/ key = <<"t", "i", "m", "e", "_", "c", "o", "l", "l", "e", "c", "t", "e", "d", "_", "c", "o", "m", "p", "o", "s", "i", "t", "e", "_", "e", "n", "d">>
          \/ key \in {<<"c", "o", "m", "p", "o", "s", "i", "t", "e", "_", "e", "n", "d", "_", "t", "i", "m", "e">>,
                      <<"c", "o", "m", "p", "o", "s", "i", "t", "e", " ", "e", "n", "d", " ", "t", "i", "m", "e">>,
                      <<"c", "o", "l", "l", "e", "c", "t", "e", "d", "_", "c", "o", "m", "p", "o", "s", "i", "t", "e", "_", "e", "n", "d", "_", "t", "i", "m", "e">>,
                      <<"c", "o", "l", "l", "e", "c", "t", "e", "d", " ", "o", "r", " ", "c", "o", "m", "p", "o", "s", "i", "t", "e", " ", "e", "n", "d", " ", "t", "i", "m", "e">>,
                      <<"c", "o", "l", "l", "e", "c", "t", "e", "d", "_", "o", "r", "_", "c", "o", "m", "p", "o", "s", "i", "t", "e", "_", "e", "n", "d", "_", "t", "i", "m", "e">>}
          \/ StartsWith(key, <<"c", "o", "l", "l", "e", "c", "t", "e", "d", "_", "c", "o", "m", "p", "o", "s", "i", "t", "e", "_", "e", "n", "d", "_", "t", "i", "m", "e", "_">>)
    \* line 1248
    \/ /\ sample_info["# Cont"] # NIL
       /\ \/ StartsWith(key, <<"n", "u", "m", "b", "e", "r", "_", "c", "o", "n", "t", "a", "i", "n", "e", "r", "s", "_">>)
          \/ EndsWith(key, <<"_", "n", "u", "m", "b", "e", "r", "_", "c", "o", "n", "t", "a", "i", "n", "e", "r", "s">>)
          \/ StartsWith(key, <<"n", "u", "m", "b", "e", "r", "_", "c", "o", "n", "t", "a", "i", "n", "e", "r", "s", "-">>)
          \/ EndsWith(key, <<"-", "n", "u", "m", "b", "e", "r", "_", "c", "o", "n", "t", "a", "i", "n", "e", "r", "s">>)
          \/ key \in {<<"#", " ", "c", "o", "n", "t">>,
                      <<"#", " ", "c", "o", "n", "t", ".">>,
                      <<"c", "o", "n", "t">>,
                      <<"n", "u", "m", "b", "e", "r", "_", "o", "f", "_", "c", "o", "n", "t", "a", "i", "n", "e", "r", "s">>,
                      <<"n", "u", "m", "b", "e", "r", " ", "o", "f", " ", "c", "o", "n", "t", "a", "i", "n", "e", "r", "s">>,
                      <<"n", "u", "m", "_", "c", "o", "n", "t", "a", "i", "n", "e", "r", "s">>,
                      <<"#", "_", "c", "o", "n", "t">>}
    \* line 1250
    \/ /\ sample_info["Residual Chloride Result"] # NIL
       /\ \/ StartsWith(key, <<"r", "e", "s", "i", "d", "u", "a", "l", "_", "c", "h", "l", "o", "r", "i", "n", "e", "_", "r", "e", "s", "u", "l", "t", "_">>)
          \/ EndsWith(key, <<"_", "r", "e", "s", "i", "d", "u", "a", "l", "_", "c", "h", "l", "o", "r", "i", "n", "e", "_", "r", "e", "s", "u", "l", "t">>)
          \/ key \in {<<"r", "e", "s", "u", "l", "t">>,
                      <<"r", "e", "s", "i", "d", "u", "a", "l", " ", "c", "h", "l", "o", "r", "i", "n", "e", " ", "r", "e", "s", "u", "l", "t">>,
                      <<"r", "e", "s", "i", "d", "u", "a", "l", " ", "c", "h", "l", "o", "r", "i", "d", "e", " ", "r", "e", "s", "u", "l", "t">>,
                      <<"r", "e", "s", "i", "d", "u", "a", "l", "_", "c", "h", "l", "o", "r", "i", "n", "e", "_", "r", "e", "s", "u", "l", "t">>,
                      <<"r", "e", "s", "i", "d", "u", "a", "l", "_", "c", "h", "l", "o", "r", "i", "d", "e", "_", "r", "e", "s", "u", "l", "t">>}
    \* line 1252
    \/ /\ sample_info["Residual Chloride Units"] # NIL
       /\ \/ StartsWith(key, <<"r", "e", "s", "i", "d", "u", "a", "l", "_", "c", "h", "l", "o", "r", "i", "n", "e", "_", "u", "n", "i", "t", "s", "_">>)
          \/ EndsWith(key, <<"_", "r", "e", "s", "i", "d", "u", "a", "l", "_", "c", "h", "l", "o", "r", "i", "n", "e", "_", "u", "n", "i", "t", "s">>)
          \/ key \in {<<"u", "n", "i", "t", "s">>,
                      <<"r", "e", "s", "i", "d", "u", "a", "l", " ", "c", "h", "l", "o", "r", "i", "n", "e", " ", "u", "n", "i", "t", "s">>,
                      <<"r", "e", "s", "i", "d", "u", "a", "l", " ", "c", "h", "l", "o", "r", "i", "d", "e", " ", "u", "n", "i", "t", "s">>,
                      <<"r", "e", "s", "i", "d", "u", "a", "l", "_", "c", "h", "l", "o", "r", "i", "n", "e", "_", "u", "n", "i", "t", "s">>,
                      <<"r", "e", "s", "i", "d", "u", "a", "l", "_", "c", "h", "l", "o", "r", "i", "d", "e", "_", "u", "n", "i", "t", "s">>}
    \* line 1254
    \/ /\ sample_info["Sample Comment"] # NIL
       /\ \/ StartsWith(key, <<"s", "a", "m", "p", "l", "e", "_", "c", "o", "m", "m", "e", "n", "t", "_">>)
          \/ EndsWith(key, <<"_", "s", "a", "m", "p", "l", "e", "_", "c", "o", "m", "m", "e", "n", "t">>)
          \/ StartsWith(key, <<"c", "o", "m", "m", "e", "n", "t", "_">>)
          \/ EndsWith(key, <<"_", "c", "o", "m", "m", "e", "n", "t">>)
          \/ key \in {<<"s", "a", "m", "p", "l", "e", "_", "c", "o", "m", "m", "e", "n", "t">>,
                      <<"c", "o", "m", "m", "e", "n", "t">>,
                      <<"c", "o", "m", "m", "e", "n", "t", "s">>}

\* The if/elif chain of the second loop, over all the records
\* (lines 1258-1339).
\* A branch that holds a chain of its own assigns the slot that chain
\* picks, and none ("") when no branch of it applies.
SecondBranches(sample_info, key) ==
    <<
    \* line 1258
       <<\/ StartsWith(key, <<"m", "a", "t", "r", "i", "x", "_">>)
         \/ EndsWith(key, <<"_", "m", "a", "t", "r", "i", "x">>)
         \/ StartsWith(key, <<"m", "a", "t", "r", "i", "x", "_", "t", "y", "p", "e", "_", "s", "a", "m", "p", "l", "e", "_">>)
         \/ EndsWith(key, <<"_", "m", "a", "t", "r", "i", "x", "_", "t", "y", "p", "e", "_", "s", "a", "m", "p", "l", "e">>)
         \/ key = <<"m", "a", "t", "r", "i", "x">>,
         "Matrix">>
    \* line 1262
    ,  <<\/ StartsWith(key, <<"c", "o", "m", "p", "_", "g", "r", "a", "b", "_">>)
         \/ EndsWith(key, <<"_", "c", "o", "m", "p", "_", "g", "r", "a", "b">>)
         \/ StartsWith(key, <<"g", "r", "a", "b", "_", "c", "o", "m", "p", "_">>)
         \/ EndsWith(key, <<"_", "g", "r", "a", "b", "_", "c", "o", "m", "p">>)
         \/ key \in {<<"c", "o", "m", "p", "/", "g", "r", "a", "b">>,
                     <<"c", "o", "m", "p", "_", "g", "r", "a", "b">>,
                     <<"c", "o", "m", "p", "o", "s", "i", "t", "e", "_", "g", "r", "a", "b">>,
                     <<"g", "r", "a", "b", "_", "c", "o", "m", "p">>},
         "Comp/Grab">>
    \* line 1266
    ,  <<\/ StartsWith(key, <<"c", "o", "l", "l", "e", "c", "t", "e", "d", "_", "d", "a", "t", "e", "_", "s", "t", "a", "r", "t", "_">>)
         \/ EndsWith(key, <<"_", "c", "o", "l", "l", "e", "c", "t", "e", "d", "_", "d", "a", "t", "e", "_", "s", "t", "a", "r", "t">>)
         \/ StartsWith(key, <<"c", "o", "l", "l", "e", "c", "t", "e", "d", "_", "d", "a", "t", "e", "_", "m", "f", "_", "p", "_", "i">>)
         \/ EndsWith(key, <<"_", "c", "o", "l", "l", "e", "c", "t", "e", "d", "_", "d", "a", "t", "e", "_", "m", "f", "_", "p", "_", "i">>)
         \/ StartsWith(key, <<"d", "a", "t", "e", "_", "s", "h", "_", "5", "0">>)
         \/ EndsWith(key, <<"_", "d", "a", "t", "e", "_", "s", "h", "_", "5", "0">>)
         \/ StartsWith(key, <<"d", "a", "t", "e", "_", "c", "o", "l", "l", "e", "c", "t", "e", "d", "_", "s", "h", "_", "5", "0">>)
         \/ EndsWith(key, <<"_", "d", "a", "t", "e", "_", "c", "o", "l", "l", "e", "c", "t", "e", "d", "_", "s", "h", "_", "5", "0">>)
         \/ StartsWith(key, <<"c", "o", "m", "p", "o", "s", "i", "t", "e", "_", "s", "t", "a", "r", "t", "_", "d", "a", "t", "e", "_">>)
         \/ EndsWith(key, <<"_", "c", "o", "m", "p", "o", "s", "i", "t", "e", "_", "s", "t", "a", "r", "t", "_", "d", "a", "t", "e">>)
         \/ StartsWith(key, <<"c", "o", "l", "l", "e", "c", "t", "e", "d", "_", "a", "s", "_", "c", "o", "m", "p", "o", "s", "i", "t", "e", "_", "s", "t", "a", "r", "t", "_", "d", "a", "t", "e", "_">>)
         \/ EndsWith(key, <<"_", "c", "o", "l", "l", "e", "c", "t", "e", "d", "_", "a", "s", "_", "c", "o", "m", "p", "o", "s", "i", "t", "e", "_", "s", "t", "a", "r", "t", "_", "d", "a", "t", "e">>)
         \/ StartsWith(key, <<"c", "o", "l", "l", "e", "c", "t", "e", "d", "_", "o", "r", "_", "c", "o", "m", "p", "o", "s", "i", "t", "e", "_", "s", "t", "a", "r", "t", "_", "d", "a", "t", "e", "_">>)
         \/ EndsWith(key, <<"_", "c", "o", "l", "l", "e", "c", "t", "e", "d", "_", "o", "r", "_", "c", "o", "m", "p", "o", "s", "i", "t", "e", "_", "s", "t", "a", "r", "t", "_", "d", "a", "t", "e">>)
         \/ StartsWith(key, <<"c", "o", "l", "l", "e", "c", "t", "e", "d", "_", "d", "a", "t", "e", "_">>)
         \/ EndsWith(key, <<"_", "c", "o", "l", "l", "e", "c", "t", "e", "d", "_", "d", "a", "t", "e">>)
         \/ key \in {<<"c", "o", "m", "p", "o", "s", "i", "t", "e", "_", "s", "t", "a", "r", "t", "_", "d", "a", "t", "e">>,
                     <<"c", "o", "m", "p", "o", "s", "i", "t", "e", " ", "s", "t", "a", "r", "t", " ", "d", "a", "t", "e">>,
                     <<"c", "o", "l", "l", "e", "c", "t", "e", "d", "_", "d", "a", "t", "e", "_", "m", "f", "_", "p", "_", "i">>,
                     <<"d", "a", "t", "e", "_", "s", "h", "_", "5", "0">>,
                     <<"d", "a", "t", "e", "_", "c", "o", "l", "l", "e", "c", "t", "e", "d", "_", "s", "h", "_", "5", "0">>},
         "Composite Start Date">>
    \* line 1276
    ,  <<\/ StartsWith(key, <<"c", "o", "l", "l", "e", "c", "t", "e", "d", "_", "t", "i", "m", "e", "_", "s", "t", "a", "r", "t", "_">>)
         \/ EndsWith(key, <<"_", "c", "o", "l", "l", "e", "c", "t", "e", "d", "_", "t", "i", "m", "e", "_", "s", "t", "a", "r", "t">>)
         \/ StartsWith(key, <<"c", "o", "l", "l", "e", "c", "t", "e", "d", "_", "t", "i", "m", "e", "_", "m", "f", "_", "p", "_", "i">>)
         \/ EndsWith(key, <<"_", "c", "o", "l", "l", "e", "c", "t", "e", "d", "_", "t", "i", "m", "e", "_", "m", "f", "_", "p", "_", "i">>)
         \/ StartsWith(key, <<"t", "i", "m", "e", "_", "s", "h", "_", "5", "0">>)
         \/ EndsWith(key, <<"_", "t", "i", "m", "e", "_", "s", "h", "_", "5", "0">>)
         \/ StartsWith(key, <<"t", "i", "m", "e", "_", "c", "o", "l", "l", "e", "c", "t", "e", "d", "_", "s", "h", "_", "5", "0">>)
         \/ EndsWith(key, <<"_", "t", "i", "m", "e", "_", "c", "o", "l", "l", "e", "c", "t", "e", "d", "_", "s", "h", "_", "5", "0">>)
         \/ StartsWith(key, <<"c", "o", "m", "p", "o", "s", "i", "t", "e", "_", "s", "t", "a", "r", "t", "_", "t", "i", "m", "e", "_">>)
         \/ EndsWith(key, <<"_", "c", "o", "m", "p", "o", "s", "i", "t", "e", "_", "s", "t", "a", "r", "t", "_", "t", "i", "m", "e">>)
         \/ StartsWith(key, <<"c", "o", "l", "l", "e", "c", "t", "e", "d", "_", "a", "s", "_", "c", "o", "m", "p", "o", "s", "i", "t", "e", "_", "s", "t", "a", "r", "t", "_", "t", "i", "m", "e", "_">>)
         \/ EndsWith(key, <<"_", "c", "o", "l", "l", "e", "c", "t", "e", "d", "_", "a", "s", "_", "c", "o", "m", "p", "o", "s", "i", "t", "e", "_", "s", "t", "a", "r", "t", "_", "t", "i", "m", "e">>)
         \/ StartsWith(key, <<"c", "o", "l", "l", "e", "c", "t", "e", "d", "_", "o", "r", "_", "c", "o", "m", "p", "o", "s", "i", "t", "e", "_", "s", "t", "a", "r", "t", "_", "t", "i", "m", "e", "_">>)
         \/ EndsWith(key, <<"_", "c", "o", "l", "l", "e", "c", "t", "e", "d", "_", "o", "r", "_", "c", "o", "m", "p", "o", "s", "i", "t", "e", "_", "s", "t", "a", "r", "t", "_", "t", "i", "m", "e">>)
         \/ StartsWith(key, <<"c", "o", "l", "l", "e", "c", "t", "e", "d", "_", "t", "i", "m", "e", "_">>)
         \/ EndsWith(key, <<"_", "c", "o", "l", "l", "e", "c", "t", "e", "d", "_", "t", "i", "m", "e">>)
         \/ key = <<"t", "i", "m", "e", "_", "c", "o", "l", "l", "e", "c", "t", "e", "d", "_", "c", "o", "m", "p", "o", "s", "i", "t", "e", "_", "s", "t", "a", "r", "t">>
         \/ key \in {<<"c", "o", "m", "p", "o", "s", "i", "t", "e", "_", "s", "t", "a", "r", "t", "_", "t", "i", "m", "e">>,
                     <<"c", "o", "m", "p", "o", "s", "i", "t", "e", " ", "s", "t", "a", "r", "t", " ", "t", "i", "m", "e">>,
                     <<"c", "o", "l", "l", "e", "c", "t", "e", "d", "_", "t", "i", "m", "e", "_", "m", "f", "_", "p", "_", "i">>,
                     <<"t", "i", "m", "e", "_", "s", "h", "_", "5", "0">>,
                     <<"t", "i", "m", "e", "_", "c", "o", "l", "l", "e", "c", "t", "e", "d", "_", "s", "h", "_", "5", "0">>},
         "Composite Start Time">>
    \* line 1286
    ,  <<\/ StartsWith(key, <<"c", "o", "l", "l", "e", "c", "t", "e", "d", "_", "d", "a", "t", "e", "_", "e", "n", "d", "_">>)
         \/ EndsWith(key, <<"_", "c", "o", "l", "l", "e", "c", "t", "e", "d", "_", "d", "a", "t", "e", "_", "e", "n", "d">>)
         \/ StartsWith(key, <<"c", "o", "l", "l", "e", "c", "t", "e", "d", "_", "a", "s", "_", "c", "o", "m", "p", "o", "s", "i", "t", "e", "_", "e", "n", "d", "_", "d", "a", "t", "e", "_">>)
         \/ EndsWith(key, <<"_", "c", "o", "l", "l", "e", "c", "t", "e", "d", "_", "a", "s", "_", "c", "o", "m", "p", "o", "s", "i", "t", "e", "_", "e", "n", "d", "_", "d", "a", "t", "e">>)
         \/ StartsWith(key, <<"c", "o", "l", "l", "e", "c", "t", "e", "d", "_", "a", "t", "_", "c", "o", "m", "p", "o", "s", "i", "t", "e", "_", "e", "n", "d", "_", "d", "a", "t", "e", "_">>)
         \/ EndsWith(key, <<"_", "c", "o", "l", "l", "e", "c", "t", "e", "d", "_", "a", "t", "_", "c", "o", "m", "p", "o", "s", "i", "t", "e", "_", "e", "n", "d", "_", "d", "a", "t", "e">>)
         \/ StartsWith(key, <<"c", "o", "l", "l", "e", "c", "t", "e", "d", "_", "o", "r", "_", "c", "o", "m", "p", "o", "s", "i", "t", "e", "_", "e", "n", "d", "_", "d", "a", "t", "e", "_">>)
         \/ EndsWith(key, <<"_", "c", "o", "l", "l", "e", "c", "t", "e", "d", "_", "o", "r", "_", "c", "o", "m", "p", "o", "s", "i", "t", "e", "_", "e", "n", "d", "_", "d", "a", "t", "e">>)
         \/ StartsWith(key, <<"c", "o", "m", "p", "o", "s", "i", "t", "e", "_", "e", "n", "d", "_", "d", "a", "t", "e", "_">>)
         \/ EndsWith(key, <<"_", "c", "o", "m", "p", "o", "s", "i", "t", "e", "_", "e", "n", "d", "_", "d", "a", "t", "e">>)
         \/ key \in {<<"c", "o", "m", "p", "o", "s", "i", "t", "e", "_", "e", "n", "d", "_", "d", "a", "t", "e">>,
                     <<"c", "o", "m", "p", "o", "s", "i", "t", "e", " ", "e", "n", "d", " ", "d", "a", "t", "e">>,
                     <<"c", "o", "l", "l", "e", "c", "t", "e", "d", "_", "c", "o", "m", "p", "o", "s", "i", "t", "e", "_", "e", "n", "d", "_", "d", "a", "t", "e">>,
                     <<"c", "o", "l", "l", "e", "c", "t", "e", "d", " ", "o", "r", " ", "c", "o", "m", "p", "o", "s", "i", "t", "e", " ", "e", "n", "d", " ", "d", "a", "t", "e">>,
                     <<"d", "a", "t", "e", "_", "c", "o", "l", "l", "e", "c", "t", "e", "d", "_", "c", "o", "m", "p", "o", "s", "i", "t", "e", "_", "e", "n", "d">>,
                     <<"c", "o", "l", "l", "e", "c", "t", "e", "d", "_", "o", "r", "_", "c", "o", "m", "p", "o", "s", "i", "t", "e", "_", "e", "n", "d", "_", "d", "a", "t", "e">>}
         \/ StartsWith(key, <<"c", "o", "l", "l", "e", "c", "t", "e", "d", "_", "c", "o", "m", "p", "o", "s", "i", "t", "e", "_", "e", "n", "d", "_", "d", "a", "t", "e", "_">>),
         "Composite or Collected End Date">>
    \* line 1294
    ,  <<\/ StartsWith(key, <<"c", "o", "l", "l", "e", "c", "t", "e", "d", "_", "t", "i", "m", "e", "_", "e", "n", "d", "_">>)
         \/ EndsWith(key, <<"_", "c", "o", "l", "l", "e", "c", "t", "e", "d", "_", "t", "i", "m", "e", "_", "e", "n", "d">>)
         \/ StartsWith(key, <<"c", "o", "l", "l", "e", "c", "t", "e", "d", "_", "a", "s", "_", "c", "o", "m", "p", "o", "s", "i", "t", "e", "_", "e", "n", "d", "_", "t", "i", "m", "e", "_">>)
         \/ EndsWith(key, <<"_", "c", "o", "l", "l", "e", "c", "t", "e", "d", "_", "a", "s", "_", "c", "o", "m", "p", "o", "s", "i", "t", "e", "_", "e", "n", "d", "_", "t", "i", "m", "e">>)
         \/ StartsWith(key, <<"c", "o", "l", "l", "e", "c", "t", "e", "d", "_", "a", "t", "_", "c", "o", "m", "p", "o", "s", "i", "t", "e", "_", "e", "n", "d", "_", "t", "i", "m", "e", "_">>)
         \/ EndsWith(key, <<"_", "c", "o", "l", "l", "e", "c", "t", "e", "d", "_", "a", "t", "_", "c", "o", "m", "p", "o", "s", "i", "t", "e", "_", "e", "n", "d", "_", "t", "i", "m", "e">>)
         \/ StartsWith(key, <<"c", "o", "l", "l", "e", "c", "t", "e", "d", "_", "o", "r", "_", "c", "o", "m", "p", "o", "s", "i", "t", "e", "_", "e", "n", "d", "_", "t", "i", "m", "e", "_">>)
         \/ EndsWith(key, <<"_", "c", "o", "l", "l", "e", "c", "t", "e", "d", "_", "o", "r", "_", "c", "o", "m", "p", "o", "s", "i", "t", "e", "_", "e", "n", "d", "_", "t", "i", "m", "e">>)
         \/ StartsWith(key, <<"c", "o", "m", "p", "o", "s", "i", "t", "e", "_", "e", "n", "d", "_", "t", "i", "m", "e", "_">>)
         \/ EndsWith(key, <<"_", "c", "o", "m", "p", "o", "s", "i", "t", "e", "_", "e", "n", "d", "_", "t", "i", "m", "e">>)
         \/ key = <<"t", "i", "m", "e", "_", "c", "o", "l", "l", "e", "c", "t", "e", "d", "_", "c", "o", "m", "p", "o", "s", "i", "t", "e", "_", "e", "n", "d">>
         \/ key \in {<<"c", "o", "m", "p", "o", "s", "i", "t", "e", "_", "e", "n", "d", "_", "t", "i", "m", "e">>,
                     <<"c", "o", "m", "p", "o", "s", "i", "t", "e", " ", "e", "n", "d", " ", "t", "i", "m", "e">>,
                     <<"c", "o", "l", "l", "e", "c", "t", "e", "d", "_", "c", "o", "m", "p", "o", "s", "i", "t", "e", "_", "e", "n", "d", "_", "t", "i", "m", "e">>,
                     <<"c", "o", "l", "l", "e", "c", "t", "e", "d", " ", "o", "r", " ", "c", "o", "m", "p", "o", "s", "i", "t", "e", " ", "e", "n", "d", " ", "t", "i", "m", "e">>,
                     <<"c", "o", "l", "l", "e", "c", "t", "e", "d", "_", "o", "r", "_", "c", "o", "m", "p", "o", "s", "i", "t", "e", "_", "e", "n", "d", "_", "t", "i", "m", "e">>}
         \/ StartsWith(key, <<"c", "o", "l", "l", "e", "c", "t", "e", "d", "_", "c", "o", "m", "p", "o", "s", "i", "t", "e", "_", "e", "n", "d", "_", "t", "i", "m", "e", "_">>),
         "Composite or Collected End Time">>
    \* line 1303
    ,  <<(key = <<"d", "a", "t", "e">> /\ sample_info["Composite or Collected End Date"] = NIL),
         "Composite or Collected End Date">>
    \* line 1305
    ,  <<(key = <<"t", "i", "m", "e">> /\ sample_info["Composite or Collected End Time"] = NIL),
         "Composite or Collected End Time">>
    \* line 1308
    ,  <<(StartsWith(key, <<"d", "a", "t", "e", "_">>) /\ sample_info["Composite or Collected End Date"] = NIL),
         "Composite or Collected End Date">>
    \* line 1310
    ,  <<(StartsWith(key, <<"t", "i", "m", "e", "_">>) /\ sample_info["Composite or Collected End Time"] = NIL),
         "Composite or Collected End Time">>
    \* line 1312
    ,  <<\/ StartsWith(key, <<"n", "u", "m", "b", "e", "r", "_", "c", "o", "n", "t", "a", "i", "n", "e", "r", "s", "_">>)
         \/ EndsWith(key, <<"_", "n", "u", "m", "b", "e", "r", "_", "c", "o", "n", "t", "a", "i", "n", "e", "r", "s">>)
         \/ StartsWith(key, <<"n", "u", "m", "b", "e", "r", "_", "c", "o", "n", "t", "a", "i", "n", "e", "r", "s", "-">>)
         \/ EndsWith(key, <<"-", "n", "u", "m", "b", "e", "r", "_", "c", "o", "n", "t", "a", "i", "n", "e", "r", "s">>)
         \/ key \in {<<"#", " ", "c", "o", "n", "t">>,
                     <<"#", " ", "c", "o", "n", "t", ".">>,
                     <<"c", "o", "n", "t">>,
                     <<"n", "u", "m", "b", "e", "r", "_", "o", "f", "_", "c", "o", "n", "t", "a", "i", "n", "e", "r", "s">>,
                     <<"n", "u", "m", "b", "e", "r", " ", "o", "f", " ", "c", "o", "n", "t", "a", "i", "n", "e", "r", "s">>,
                     <<"n", "u", "m", "_", "c", "o", "n", "t", "a", "i", "n", "e", "r", "s">>,
                     <<"#", "_", "c", "o", "n", "t">>},
         "# Cont">>
    \* line 1314
    ,  <<\/ StartsWith(key, <<"r", "e", "s", "i", "d", "u", "a", "l", "_", "c", "h", "l", "o", "r", "i", "n", "e", "_", "r", "e", "s", "u", "l", "t", "_">>)
         \/ EndsWith(key, <<"_", "r", "e", "s", "i", "d", "u", "a", "l", "_", "c", "h", "l", "o", "r", "i", "n", "e", "_", "r", "e", "s", "u", "l", "t">>)
         \/ key \in {<<"r", "e", "s", "u", "l", "t">>,
                     <<"r", "e", "s", "i", "d", "u", "a", "l", " ", "c", "h", "l", "o", "r", "i", "n", "e", " ", "r", "e", "s", "u", "l", "t">>,
                     <<"r", "e", "s", "i", "d", "u", "a", "l", " ", "c", "h", "l", "o", "r", "i", "d", "e", " ", "r", "e", "s", "u", "l", "t">>,
                     <<"r", "e", "s", "i", "d", "u", "a", "l", "_", "c", "h", "l", "o", "r", "i", "n", "e", "_", "r", "e", "s", "u", "l", "t">>,
                     <<"r", "e", "s", "i", "d", "u", "a", "l", "_", "c", "h", "l", "o", "r", "i", "d", "e", "_", "r", "e", "s", "u", "l", "t">>},
         "Residual Chloride Result">>
    \* line 1316
    ,  <<\/ StartsWith(key, <<"r", "e", "s", "i", "d", "u", "a", "l", "_", "c", "h", "l", "o", "r", "i", "n", "e", "_", "u", "n", "i", "t", "s", "_">>)
         \/ EndsWith(key, <<"_", "r", "e", "s", "i", "d", "u", "a", "l", "_", "c", "h", "l", "o", "r", "i", "n", "e", "_", "u", "n", "i", "t", "s">>)
         \/ key \in {<<"u", "n", "i", "t", "s">>,
                     <<"r", "e", "s", "i", "d", "u", "a", "l", " ", "c", "h", "l", "o", "r", "i", "n", "e", " ", "u", "n", "i", "t", "s">>,
                     <<"r", "e", "s", "i", "d", "u", "a", "l", " ", "c", "h", "l", "o", "r", "i", "d", "e", " ", "u", "n", "i", "t", "s">>,
                     <<"r", "e", "s", "i", "d", "u", "a", "l", "_", "c", "h", "l", "o", "r", "i", "n", "e", "_", "u", "n", "i", "t", "s">>,
                     <<"r", "e", "s", "i", "d", "u", "a", "l", "_", "c", "h", "l", "o", "r", "i", "d", "e", "_", "u", "n", "i", "t", "s">>},
         "Residual Chloride Units">>
    \* line 1319
    ,  <<\/ StartsWith(key, <<"s", "a", "m", "p", "l", "e", "_", "c", "o", "m", "m", "e", "n", "t", "_">>)
         \/ EndsWith(key, <<"_", "s", "a", "m", "p", "l", "e", "_", "c", "o", "m", "m", "e", "n", "t">>)
         \/ StartsWith(key, <<"c", "o", "m", "m", "e", "n", "t", "_">>)
         \/ EndsWith(key, <<"_", "c", "o", "m", "m", "e", "n", "t">>)
         \/ key \in {<<"s", "a", "m", "p", "l", "e", "_", "c", "o", "m", "m", "e", "n", "t">>,
                     <<"c", "o", "m", "m", "e", "n", "t">>,
                     <<"c", "o", "m", "m", "e", "n", "t", "s">>},
         "Sample Comment">>
    \* line 1322
    ,  <<key \in {<<"s", "t", "a", "r", "t", "_", "d", "a", "t", "e">>,
                  <<"s", "t", "a", "r", "t", "_", "t", "i", "m", "e">>,
                  <<"e", "n", "d", "_", "d", "a", "t", "e">>,
                  <<"e", "n", "d", "_", "t", "i", "m", "e">>,
                  <<"c", "o", "l", "l", "e", "c", "t", "i", "o", "n", "_", "d", "a", "t", "e">>,
                  <<"c", "o", "l", "l", "e", "c", "t", "i", "o", "n", "_", "t", "i", "m", "e">>},
         IF (key \in {<<"s", "t", "a", "r", "t", "_", "d", "a", "t", "e">>,
                      <<"c", "o", "l", "l", "e", "c", "t", "i", "o", "n", "_", "d", "a", "t", "e">>} /\ sample_info["Composite Start Date"] = NIL)
         THEN "Composite Start Date"
         ELSE
         IF (key \in {<<"s", "t", "a", "r", "t", "_", "t", "i", "m", "e">>,
                      <<"c", "o", "l", "l", "e", "c", "t", "i", "o", "n", "_", "t", "i", "m", "e">>} /\ sample_info["Composite Start Time"] = NIL)
         THEN "Composite Start Time"
         ELSE
         IF (key = <<"e", "n", "d", "_", "d", "a", "t", "e">> /\ sample_info["Composite or Collected End Date"] = NIL)
         THEN "Composite or Collected End Time"
         ELSE
         IF (key = <<"e", "n", "d", "_", "t", "i", "m", "e">> /\ sample_info["Composite or Collected End Time"] = NIL)
         THEN "Composite or Collected End Time"
         ELSE "">>
    \* line 1332
    ,  <<key \in {<<"c", "o", "n", "t", "a", "i", "n", "e", "r", "s">>,
                  <<"c", "o", "n", "t", "a", "i", "n", "e", "r", "_", "c", "o", "u", "n", "t">>,
                  <<"n", "u", "m", "_", "c", "o", "n", "t", "a", "i", "n", "e", "r", "s">>,
                  <<"c", "o", "n", "t", "a", "i", "n", "e", "r", "_", "n", "u", "m", "b", "e", "r">>,
                  <<"n", "o", "_", "c", "o", "n", "t", "a", "i", "n", "e", "r", "s">>},
         "# Cont">>
    \* line 1335
    ,  <<key \in {<<"r", "e", "s", "i", "d", "u", "a", "l", "_", "c", "h", "l", "o", "r", "i", "n", "e">>,
                  <<"r", "e", "s", "i", "d", "u", "a", "l", "_", "c", "h", "l", "o", "r", "i", "d", "e">>,
                  <<"c", "h", "l", "o", "r", "i", "n", "e", "_", "r", "e", "s", "u", "l", "t">>,
                  <<"c", "h", "l", "o", "r", "i", "d", "e", "_", "r", "e", "s", "u", "l", "t">>,
                  <<"c", "h", "l", "o", "r", "i", "n", "e", "_", "u", "n", "i", "t", "s">>,
                  <<"c", "h", "l", "o", "r", "i", "d", "e", "_", "u", "n", "i", "t", "s">>},
         IF (Contains(key, <<"r", "e", "s", "u", "l", "t">>) /\ sample_info["Residual Chloride Result"] = NIL)
         THEN "Residual Chloride Result"
         ELSE
         IF (Contains(key, <<"u", "n", "i", "t", "s">>) /\ sample_info["Residual Chloride Units"] = NIL)
         THEN "Residual Chloride Units"
         ELSE "">>
    >>

\* The keys of field_type_mapping the fallback of a slot looks under
\* (lines 1379-1506).
FallbackKey(slot, field_key) ==
    \* line 1382
    CASE slot = "Matrix" ->
          \/ StartsWith(field_key, <<"m", "a", "t", "r", "i", "x", "_">>)
          \/ EndsWith(field_key, <<"_", "m", "a", "t", "r", "i", "x">>)
          \/ (StartsWith(field_key, <<"d", "w", "_">>) /\ EndsWith(field_key, <<"_", "m", "a", "t", "r", "i", "x">>))
    \* line 1393
      [] slot = "Comp/Grab" ->
          \/ StartsWith(field_key, <<"c", "o", "m", "p", "_", "g", "r", "a", "b", "_">>)
          \/ EndsWith(field_key, <<"_", "c", "o", "m", "p", "_", "g", "r", "a", "b">>)
          \/ (StartsWith(field_key, <<"d", "w", "_">>) /\ EndsWith(field_key, <<"_", "c", "o", "m", "p", "_", "g", "r", "a", "b">>))
    \* line 1404
      [] slot = "Composite Start Date" ->
          \/ (StartsWith(field_key, <<"c", "o", "l", "l", "e", "c", "t", "e", "d", "_", "d", "a", "t", "e", "_", "s", "t", "a", "r", "t", "_">>) \/ EndsWith(field_key, <<"_", "c", "o", "l", "l", "e", "c", "t", "e", "d", "_", "d", "a", "t", "e", "_", "s", "t", "a", "r", "t">>))
          \/ (StartsWith(field_key, <<"c", "o", "m", "p", "o", "s", "i", "t", "e", "_", "s", "t", "a", "r", "t", "_", "d", "a", "t", "e", "_">>) \/ EndsWith(field_key, <<"_", "c", "o", "m", "p", "o", "s", "i", "t", "e", "_", "s", "t", "a", "r", "t", "_", "d", "a", "t", "e">>))
    \* line 1416
      [] slot = "Composite Start Time" ->
          \/ (StartsWith(field_key, <<"c", "o", "l", "l", "e", "c", "t", "e", "d", "_", "t", "i", "m", "e", "_", "s", "t", "a", "r", "t", "_">>) \/ EndsWith(field_key, <<"_", "c", "o", "l", "l", "e", "c", "t", "e", "d", "_", "t", "i", "m", "e", "_", "s", "t", "a", "r", "t">>))
          \/ (StartsWith(field_key, <<"c", "o", "m", "p", "o", "s", "i", "t", "e", "_", "s", "t", "a", "r", "t", "_", "t", "i", "m", "e", "_">>) \/ EndsWith(field_key, <<"_", "c", "o", "m", "p", "o", "s", "i", "t", "e", "_", "s", "t", "a", "r", "t", "_", "t", "i", "m", "e">>))
          \/ field_key = <<"t", "i", "m", "e", "_", "c", "o", "l", "l", "e", "c", "t", "e", "d", "_", "c", "o", "m", "p", "o", "s", "i", "t", "e", "_", "s", "t", "a", "r", "t">>
    \* line 1429
      [] slot = "Composite or Collected End Date" ->
          \/ (StartsWith(field_key, <<"c", "o", "l", "l", "e", "c", "t", "e", "d", "_", "d", "a", "t", "e", "_", "e", "n", "d", "_">>) \/ EndsWith(field_key, <<"_", "c", "o", "l", "l", "e", "c", "t", "e", "d", "_", "d", "a", "t", "e", "_", "e", "n", "d">>))
          \/ (StartsWith(field_key, <<"c", "o", "l", "l", "e", "c", "t", "e", "d", "_", "a", "s", "_", "c", "o", "m", "p", "o", "s", "i", "t", "e", "_", "e", "n", "d", "_", "d", "a", "t", "e", "_">>) \/ EndsWith(field_key, <<"_", "c", "o", "l", "l", "e", "c", "t", "e", "d", "_", "a", "s", "_", "c", "o", "m", "p", "o", "s", "i", "t", "e", "_", "e", "n", "d", "_", "d", "a", "t", "e">>))
          \/ (StartsWith(field_key, <<"c", "o", "l", "l", "e", "c", "t", "e", "d", "_", "a", "t", "_", "c", "o", "m", "p", "o", "s", "i", "t", "e", "_", "e", "n", "d", "_", "d", "a", "t", "e", "_">>) \/ EndsWith(field_key, <<"_", "c", "o", "l", "l", "e", "c", "t", "e", "d", "_", "a", "t", "_", "c", "o", "m", "p", "o", "s", "i", "t", "e", "_", "e", "n", "d", "_", "d", "a", "t", "e">>))
          \/ (StartsWith(field_key, <<"c", "o", "m", "p", "o", "s", "i", "t", "e", "_", "e", "n", "d", "_", "d", "a", "t", "e", "_">>) \/ EndsWith(field_key, <<"_", "c", "o", "m", "p", "o", "s", "i", "t", "e", "_", "e", "n", "d", "_", "d", "a", "t", "e">>))
          \/ field_key \in {<<"d", "a", "t", "e">>,
                            <<"d", "a", "t", "e", "_", "c", "o", "l", "l", "e", "c", "t", "e", "d", "_", "c", "o", "m", "p", "o", "s", "i", "t", "e", "_", "e", "n", "d">>,
                            <<"c", "o", "l", "l", "e", "c", "t", "e", "d", "_", "o", "r", "_", "c", "o", "m", "p", "o", "s", "i", "t", "e", "_", "e", "n", "d", "_", "d", "a", "t", "e">>}
          \/ StartsWith(field_key, <<"d", "a", "t", "e", "_">>)
          \/ StartsWith(field_key, <<"c", "o", "l", "l", "e", "c", "t", "e", "d", "_", "c", "o", "m", "p", "o", "s", "i", "t", "e", "_", "e", "n", "d", "_", "d", "a", "t", "e", "_">>)
          \/ (StartsWith(field_key, <<"d", "w", "_">>) /\ EndsWith(field_key, <<"_", "c", "o", "l", "l", "e", "c", "t", "e", "d", "_", "o", "r", "_", "c", "o", "m", "p", "o", "s", "i", "t", "e", "_", "e", "n", "d", "_", "d", "a", "t", "e">>))
    \* line 1446
      [] slot = "Composite or Collected End Time" ->
          \/ (StartsWith(field_key, <<"c", "o", "l", "l", "e", "c", "t", "e", "d", "_", "t", "i", "m", "e", "_", "e", "n", "d", "_">>) \/ EndsWith(field_key, <<"_", "c", "o", "l", "l", "e", "c", "t", "e", "d", "_", "t", "i", "m", "e", "_", "e", "n", "d">>))
          \/ (StartsWith(field_key, <<"c", "o", "l", "l", "e", "c", "t", "e", "d", "_", "a", "s", "_", "c", "o", "m", "p", "o", "s", "i", "t", "e", "_", "e", "n", "d", "_", "t", "i", "m", "e", "_">>) \/ EndsWith(field_key, <<"_", "c", "o", "l", "l", "e", "c", "t", "e", "d", "_", "a", "s", "_", "c", "o", "m", "p", "o", "s", "i", "t", "e", "_", "e", "n", "d", "_", "t", "i", "m", "e">>))
          \/ (StartsWith(field_key, <<"c", "o", "l", "l", "e", "c", "t", "e", "d", "_", "a", "t", "_", "c", "o", "m", "p", "o", "s", "i", "t", "e", "_", "e", "n", "d", "_", "t", "i", "m", "e", "_">>) \/ EndsWith(field_key, <<"_", "c", "o", "l", "l", "e", "c", "t", "e", "d", "_", "a", "t", "_", "c", "o", "m", "p", "o", "s", "i", "t", "e", "_", "e", "n", "d", "_", "t", "i", "m", "e">>))
          \/ (StartsWith(field_key, <<"c", "o", "m", "p", "o", "s", "i", "t", "e", "_", "e", "n", "d", "_", "t", "i", "m", "e", "_">>) \/ EndsWith(field_key, <<"_", "c", "o", "m", "p", "o", "s", "i", "t", "e", "_", "e", "n", "d", "_", "t", "i", "m", "e">>))
          \/ field_key = <<"t", "i", "m", "e", "_", "c", "o", "l", "l", "e", "c", "t", "e", "d", "_", "c", "o", "m", "p", "o", "s", "i", "t", "e", "_", "e", "n", "d">>
          \/ field_key \in {<<"t", "i", "m", "e">>,
                            <<"c", "o", "l", "l", "e", "c", "t", "e", "d", "_", "o", "r", "_", "c", "o", "m", "p", "o", "s", "i", "t", "e", "_", "e", "n", "d", "_", "t", "i", "m", "e">>}
          \/ StartsWith(field_key, <<"t", "i", "m", "e", "_">>)
          \/ StartsWith(field_key, <<"c", "o", "l", "l", "e", "c", "t", "e", "d", "_", "c", "o", "m", "p", "o", "s", "i", "t", "e", "_", "e", "n", "d", "_", "t", "i", "m", "e", "_">>)
          \/ (StartsWith(field_key, <<"d", "w", "_">>) /\ EndsWith(field_key, <<"_", "c", "o", "l", "l", "e", "c", "t", "e", "d", "_", "o", "r", "_", "c", "o", "m", "p", "o", "s", "i", "t", "e", "_", "e", "n", "d", "_", "t", "i", "m", "e">>))
    \* line 1463
      [] slot = "# Cont" ->
          \/ StartsWith(field_key, <<"n", "u", "m", "b", "e", "r", "_", "c", "o", "n", "t", "a", "i", "n", "e", "r", "s", "_">>)
          \/ EndsWith(field_key, <<"_", "n", "u", "m", "b", "e", "r", "_", "c", "o", "n", "t", "a", "i", "n", "e", "r", "s">>)
          \/ StartsWith(field_key, <<"n", "u", "m", "b", "e", "r", "_", "o", "f", "_", "c", "o", "n", "t", "a", "i", "n", "e", "r", "s", "_">>)
          \/ EndsWith(field_key, <<"_", "n", "u", "m", "b", "e", "r", "_", "o", "f", "_", "c", "o", "n", "t", "a", "i", "n", "e", "r", "s">>)
          \/ StartsWith(field_key, <<"n", "u", "m", "_", "c", "o", "n", "t", "a", "i", "n", "e", "r", "s", "_">>)
          \/ EndsWith(field_key, <<"_", "n", "u", "m", "_", "c", "o", "n", "t", "a", "i", "n", "e", "r", "s">>)
          \/ StartsWith(field_key, <<"n", "u", "m", "_", "c", "o", "n", "t", "_">>)
          \/ EndsWith(field_key, <<"_", "n", "u", "m", "_", "c", "o", "n", "t">>)
          \/ StartsWith(field_key, <<"c", "o", "n", "t", "a", "i", "n", "e", "r", "_", "c", "o", "u", "n", "t", "_">>)
          \/ EndsWith(field_key, <<"_", "c", "o", "n", "t", "a", "i", "n", "e", "r", "_", "c", "o", "u", "n", "t">>)
          \/ field_key \in {<<"n", "u", "m", "_", "c", "o", "n", "t", "a", "i", "n", "e", "r", "s">>,
                            <<"#", "_", "c", "o", "n", "t">>,
                            <<"c", "o", "n", "t", "a", "i", "n", "e", "r", "_", "c", "o", "u", "n", "t">>,
                            <<"n", "u", "m", "b", "e", "r", "_", "o", "f", "_", "c", "o", "n", "t", "a", "i", "n", "e", "r", "s">>,
                            <<"n", "u", "m", "_", "c", "o", "n", "t">>,
                            <<"#", " ", "c", "o", "n", "t">>,
                            <<"c", "o", "n", "t">>}
          \/ (StartsWith(field_key, <<"d", "w", "_">>) /\ EndsWith(field_key, <<"_", "n", "u", "m", "b", "e", "r", "_", "o", "f", "_", "c", "o", "n", "t", "a", "i", "n", "e", "r", "s">>))
    \* line 1481
      [] slot = "Residual Chloride Result" ->
          \/ StartsWith(field_key, <<"r", "e", "s", "i", "d", "u", "a", "l", "_", "c", "h", "l", "o", "r", "i", "n", "e", "_", "r", "e", "s", "u", "l", "t", "_">>)
          \/ EndsWith(field_key, <<"_", "r", "e", "s", "i", "d", "u", "a", "l", "_", "c", "h", "l", "o", "r", "i", "n", "e", "_", "r", "e", "s", "u", "l", "t">>)
          \/ StartsWith(field_key, <<"r", "e", "s", "i", "d", "u", "a", "l", "_", "c", "h", "l", "o", "r", "i", "d", "e", "_", "r", "e", "s", "u", "l", "t", "_">>)
          \/ EndsWith(field_key, <<"_", "r", "e", "s", "i", "d", "u", "a", "l", "_", "c", "h", "l", "o", "r", "i", "d", "e", "_", "r", "e", "s", "u", "l", "t">>)
          \/ StartsWith(field_key, <<"r", "e", "s", "u", "l", "t", "_">>)
          \/ EndsWith(field_key, <<"_", "r", "e", "s", "u", "l", "t">>)
          \/ field_key \in {<<"r", "e", "s", "u", "l", "t">>,
                            <<"r", "e", "s", "i", "d", "u", "a", "l", "_", "c", "h", "l", "o", "r", "i", "n", "e", "_", "r", "e", "s", "u", "l", "t">>,
                            <<"r", "e", "s", "i", "d", "u", "a", "l", "_", "c", "h", "l", "o", "r", "i", "d", "e", "_", "r", "e", "s", "u", "l", "t">>,
                            <<"r", "e", "s", "i", "d", "u", "a", "l", " ", "c", "h", "l", "o", "r", "i", "d", "e", " ", "r", "e", "s", "u", "l", "t">>}
    \* line 1496
      [] slot = "Residual Chloride Units" ->
          \/ StartsWith(field_key, <<"r", "e", "s", "i", "d", "u", "a", "l", "_", "c", "h", "l", "o", "r", "i", "n", "e", "_", "u", "n", "i", "t", "s", "_">>)
          \/ EndsWith(field_key, <<"_", "r", "e", "s", "i", "d", "u", "a", "l", "_", "c", "h", "l", "o", "r", "i", "n", "e", "_", "u", "n", "i", "t", "s">>)
          \/ StartsWith(field_key, <<"r", "e", "s", "i", "d", "u", "a", "l", "_", "c", "h", "l", "o", "r", "i", "d", "e", "_", "u", "n", "i", "t", "s", "_">>)
          \/ EndsWith(field_key, <<"_", "r", "e", "s", "i", "d", "u", "a", "l", "_", "c", "h", "l", "o", "r", "i", "d", "e", "_", "u", "n", "i", "t", "s">>)
          \/ StartsWith(field_key, <<"u", "n", "i", "t", "s", "_">>)
          \/ EndsWith(field_key, <<"_", "u", "n", "i", "t", "s">>)
          \/ field_key \in {<<"u", "n", "i", "t", "s">>,
                            <<"r", "e", "s", "i", "d", "u", "a", "l", "_", "c", "h", "l", "o", "r", "i", "n", "e", "_", "u", "n", "i", "t", "s">>,
                            <<"r", "e", "s", "i", "d", "u", "a", "l", "_", "c", "h", "l", "o", "r", "i", "d", "e", "_", "u", "n", "i", "t", "s">>,
                            <<"r", "e", "s", "i", "d", "u", "a", "l", " ", "c", "h", "l", "o", "r", "i", "d", "e", " ", "u", "n", "i", "t", "s">>}
      [] OTHER -> FALSE

\* The first branch of a chain whose condition holds assigns its slot.
Assign(sample_info, branches, value) ==
    LET taken == {k \in 1..Len(branches) : branches[k][1]}
        slot  == branches[Min(taken)][2]
    IN  IF taken = {} THEN sample_info
        ELSE IF slot = "" THEN sample_info
        ELSE Put(sample_info, slot, value)

\* sample_info after the first n records of sample_field_groups[sample_id].
RECURSIVE PrimaryPass(_, _, _, _)
PrimaryPass(sample_info, group, sample_id, n) ==
    IF n = 0 THEN sample_info
    ELSE LET info == PrimaryPass(sample_info, group, sample_id, n - 1)
         IN  Assign(info, PrimaryBranches(info, KeyOf(group[n]), sample_id),
                    ValueOf(group[n]))

\* sample_info after the first n sample_field records of the second loop,
\* which runs over the records of every sample.
RECURSIVE SecondPass(_, _, _)
SecondPass(sample_info, fields, n) ==
    IF n = 0 THEN sample_info
    ELSE LET info == SecondPass(sample_info, fields, n - 1)
             key  == KeyOf(fields[n])
         IN  IF AlreadyHave(info, key) THEN info
             ELSE Assign(info, SecondBranches(info, key), ValueOf(fields[n]))

\* str.split(): the runs of characters that are no whitespace, in order.
PySplit(s) ==
    LET starts == {i \in 1..Len(s) : s[i] \notin PyWS /\ (i = 1 \/ s[i - 1] \in PyWS)}
        End(i) == Min({j \in i..Len(s) : j = Len(s) \/ s[j + 1] \in PyWS})
        order  == SortedSeq(starts)
    IN  [k \in 1..Len(order) |-> SubSeq(s, order[k], End(order[k]))]

\* "DW G": a Matrix of two words with a blank between them gives its second
\* word to an empty Comp/Grab.
SplitWords(sample_info) ==
    LET matrix_value == sample_info["Matrix"].s
        parts        == PySplit(matrix_value)
    IN  IF /\ sample_info["Matrix"] # NIL
           /\ sample_info["Comp/Grab"] = NIL
           /\ Contains(matrix_value, <<" ">>)
           /\ Len(parts) = 2
        THEN Put(Put(sample_info, "Matrix", JStr(parts[1])), "Comp/Grab", JStr(parts[2]))
        ELSE sample_info

\* "B2": a Matrix of a letter and a digit gives the digit to an empty
\* Comp/Grab.
SplitCode(sample_info) ==
    LET matrix_value == sample_info["Matrix"].s
    IN  IF /\ sample_info["Matrix"] # NIL
           /\ sample_info["Comp/Grab"] = NIL
           /\ Len(matrix_value) = 2
           /\ matrix_value[1] \in Letters
           /\ matrix_value[2] \in Digit
        THEN Put(Put(sample_info, "Matrix", JStr(<<matrix_value[1]>>)),
                 "Comp/Grab", JStr(<<matrix_value[2]>>))
        ELSE sample_info

\* "0.5 mg": re.match(r'^([\d.]+)\s*([a-zA-Z/]+)$', result_value.strip())
\* gives the unit to an empty Residual Chloride Units.
SplitResult(sample_info) ==
    LET result_value == Strip(sample_info["Residual Chloride Result"].s)
        number == Digit \cup {"."}
        unit   == Letters \cup {"/"}
        n1     == Max({k \in 0..Len(result_value) : \A j \in 1..k : result_value[j] \in number})
        n2     == Min({k \in 1..(Len(result_value) + 1) :
                          \A j \in k..Len(result_value) : result_value[j] \in unit})
    IN  IF /\ sample_info["Residual Chloride Result"] # NIL
           /\ sample_info["Residual Chloride Units"] = NIL
           /\ FullMatch(result_value, <<Rep(number, 1, Many), Rep(PyWS, 0, Many),
                                        Rep(unit, 1, Many)>>)
        THEN Put(Put(sample_info, "Residual Chloride Result", JStr(SubSeq(result_value, 1, n1))),
                 "Residual Chloride Units",
                 JStr(SubSeq(result_value, n2, Len(result_value))))
        ELSE sample_info

\* The special cases in the order of lines 1341-1375.
CompoundSplit(sample_info) == SplitCode(SplitResult(SplitCode(SplitWords(sample_info))))

\* The fallbacks as they would be if a slot took the last value that is not
\* "NIL" under the last matching key instead of the first under the first.
GlobalFallbackLast(sample_info, mapping) ==
    LET Hits(slot) == SelectSeq(mapping, LAMBDA e :
                          FallbackKey(slot, e[1].s) /\ \E k \in 1..Len(e[2]) : e[2][k] # NIL)
        Last(list) == list[Max({k \in 1..Len(list) : list[k] # NIL})]
    IN  [slot \in DOMAIN sample_info |->
            IF sample_info[slot] = NIL /\ Len(Hits(slot)) > 0
            THEN Last(Hits(slot)[Len(Hits(slot))][2])
            ELSE sample_info[slot]]

\* The fallbacks: a slot that is still "NIL" takes the first value that is
\* not "NIL" under the first key of field_type_mapping, in its order, that
\* matches the slot and has such a value.
GlobalFallback(sample_info, mapping) ==
    LET Hits(slot) == SelectSeq(mapping, LAMBDA e :
                          FallbackKey(slot, e[1].s) /\ \E k \in 1..Len(e[2]) : e[2][k] # NIL)
        First(list) == list[Min({k \in 1..Len(list) : list[k] # NIL})]
    IN  [slot \in DOMAIN sample_info |->
            IF sample_info[slot] = NIL /\ Len(Hits(slot)) > 0
            THEN First(Hits(slot)[1][2])
            ELSE sample_info[slot]]

\* checked_analyses of a sample_id.
checked_analyses(sample_data_fields, sample_id) ==
    LET checked == SelectSeq(sample_data_fields, LAMBDA field :
                       /\ TypeIs(field, v_analysis_checkbox)
                       /\ JEq(Get(field, k_sample_id, JLit("null")), sample_id)
                       /\ JEq(Get(field, k_value, JLit("null")), JStr(v_checked))
                       /\ Truthy(Get(field, k_analysis_name, JStr(<<>>))))
    IN  [k \in 1..Len(checked) |-> Item(checked[k], k_analysis_name)]

\* sample_info of a sample_id after the loops over the records.
Assigned(sample_data_fields, sample_id) ==
    LET groups == sample_field_groups(sample_data_fields, Len(sample_data_fields)).groups
        group  == IF PyHas(groups, sample_id) THEN PyGet(groups, sample_id) ELSE <<>>
        fields == SampleFields(sample_data_fields)
    IN  SecondPass(PrimaryPass(NewSampleInfo(sample_id), group, sample_id, Len(group)),
                   fields, Len(fields))

\* sample_info of a sample_id when its rows are made.
SampleInfo(sample_data_fields, sample_id) ==
    GlobalFallback(CompoundSplit(Assigned(sample_data_fields, sample_id)),
                   field_type_mapping(sample_data_fields, Len(sample_data_fields)))

\* The rows of one sample_id: one per checked analysis, or one with "NIL".
Rows(sample_data_fields, sample_id) ==
    LET sample_info == SampleInfo(sample_data_fields, sample_id)
        checked     == checked_analyses(sample_data_fields, sample_id)
    IN  IF Len(checked) > 0
        THEN [k \in 1..Len(checked) |-> Put(sample_info, "analysis_request", checked[k])]
        ELSE <<Put(sample_info, "analysis_request", NIL)>>

\* restructured_data after the first n entries of sample_ids.
RECURSIVE restructure_sample_data(_, _, _)
restructure_sample_data(sample_data_fields, sample_ids, n) ==
    IF n = 0 THEN <<>>
    ELSE restructure_sample_data(sample_data_fields, sample_ids, n - 1)
         \o Rows(sample_data_fields, sample_ids[n])
----------------------------------------------------------------------------
(* The R & C Work Order format                                              *)

rc_indicators ==
    {<<"r", "_", "a", "n", "d", "_", "c", "_", "w", "o", "r", "k", "_", "o", "r", "d", "e", "r">>, <<"y", "r", "_", "d", "a", "t", "e">>, <<"t", "i", "m", "e">>, <<"s", "a", "m", "p", "l", "e", "_", "d", "e", "s", "c", "r", "i", "p", "t", "i", "o", "n">>,
     <<"t", "o", "t", "a", "l", "_", "n", "u", "m", "b", "e", "r", "_", "o", "f", "_", "c", "o", "n", "t", "a", "i", "n", "e", "r", "s">>, <<"f", "i", "l", "t", "e", "r", "e", "d", "_", "y", "e", "s", "_", "n", "o">>, <<"c", "o", "o", "l", "e", "d", "_", "y", "e", "s", "_", "n", "o">>,
     <<"c", "o", "n", "t", "a", "i", "n", "e", "r", "_", "t", "y", "p", "e", "_", "p", "l", "a", "s", "t", "i", "c", "_", "g", "l", "a", "s", "s">>, <<"c", "o", "n", "t", "a", "i", "n", "e", "r", "_", "v", "o", "l", "u", "m", "e", "_", "m", "l">>,
     <<"s", "a", "m", "p", "l", "e", "_", "t", "y", "p", "e", "_", "g", "r", "a", "b", "_", "c", "o", "m", "p", "o", "s", "i", "t", "e">>, <<"s", "a", "m", "p", "l", "e", "_", "s", "o", "u", "r", "c", "e", "_", "w", "w", "_", "g", "w", "_", "d", "w", "_", "s", "w", "_", "s", "_", "o", "t", "h", "e", "r">>}

\* rc_count >= 3
RCThreshold == 3

\* The count of the indicators that occur in the key of some record is at
\* least three.
detect_rc_work_order_format(extracted_fields) ==
    LET field_keys == {Underscored(KeyOf(extracted_fields[k])) : k \in 1..Len(extracted_fields)}
    IN  Cardinality({indicator \in rc_indicators :
                        \E key \in field_keys : Contains(key, indicator)}) >= RCThreshold

\* The entry of sample_groups a sample_id starts with.
NewSampleGroup(sample_id) ==
    [slot \in {"R & C Work Order", "YR__ DATE", "TIME", "SAMPLE DESCRIPTION",
               "Total Number of Containers", "Filtered (Y/N)", "Cooled (Y/N)",
               "Container Type (Plastic (P) / Glass (G))", "Container Volume in mL",
               "Sample Type (Grab (G) / Composite (C))",
               "Sample Source (WW, GW, DW, SW, S, Others)", "analysis_requests"} |->
        IF slot = "SAMPLE DESCRIPTION" THEN sample_id
        ELSE IF slot = "analysis_requests" THEN <<>>
        ELSE NIL]

\* The if/elif chain on the key of a sample_field record whose sample_id is
\* in sample_groups (lines 1587-1606).
RCAssign(sample_data, key, value) ==
    IF Contains(key, <<"r", "_", "a", "n", "d", "_", "c", "_", "w", "o", "r", "k", "_", "o", "r", "d", "e", "r">>) THEN Put(sample_data, "R & C Work Order", value)
    ELSE IF Contains(key, <<"y", "r", "_", "d", "a", "t", "e">>) THEN Put(sample_data, "YR__ DATE", value)
    ELSE IF Contains(key, <<"t", "i", "m", "e">>) /\ ~Contains(key, <<"d", "a", "t", "e">>)
    THEN Put(sample_data, "TIME", value)
    ELSE IF Contains(key, <<"s", "a", "m", "p", "l", "e", "_", "d", "e", "s", "c", "r", "i", "p", "t", "i", "o", "n">>)
    THEN Put(sample_data, "SAMPLE DESCRIPTION", value)
    ELSE IF Contains(key, <<"f", "i", "l", "t", "e", "r", "e", "d", "_", "y", "e", "s", "_", "n", "o">>) THEN Put(sample_data, "Filtered (Y/N)", value)
    ELSE IF Contains(key, <<"c", "o", "o", "l", "e", "d", "_", "y", "e", "s", "_", "n", "o">>) THEN Put(sample_data, "Cooled (Y/N)", value)
    ELSE IF Contains(key, <<"c", "o", "n", "t", "a", "i", "n", "e", "r", "_", "t", "y", "p", "e", "_", "p", "l", "a", "s", "t", "i", "c", "_", "g", "l", "a", "s", "s">>)
    THEN Put(sample_data, "Container Type (Plastic (P) / Glass (G))", value)
    ELSE IF Contains(key, <<"c", "o", "n", "t", "a", "i", "n", "e", "r", "_", "v", "o", "l", "u", "m", "e", "_", "m", "l">>)
    THEN Put(sample_data, "Container Volume in mL", value)
    ELSE IF Contains(key, <<"s", "a", "m", "p", "l", "e", "_", "t", "y", "p", "e", "_", "g", "r", "a", "b", "_", "c", "o", "m", "p", "o", "s", "i", "t", "e">>)
    THEN Put(sample_data, "Sample Type (Grab (G) / Composite (C))", value)
    ELSE IF Contains(key, <<"s", "a", "m", "p", "l", "e", "_", "s", "o", "u", "r", "c", "e", "_", "w", "w", "_", "g", "w", "_", "d", "w", "_", "s", "w", "_", "s", "_", "o", "t", "h", "e", "r">>)
    THEN Put(sample_data, "Sample Source (WW, GW, DW, SW, S, Others)", value)
    ELSE sample_data

\* s.replace(w, ''): every occurrence of w, taken from the left, is removed.
RECURSIVE Without(_, _)
Without(s, w) ==
    LET i == Find(s, w)
    IN  IF i = 0 THEN s
        ELSE SubSeq(s, 1, i - 1) \o Without(SubSeq(s, i + Len(w), Len(s)), w)

\* sample_groups after its initialisation and the first n records of the
\* loop over the fields (lines 1562-1612).
RECURSIVE sample_groups(_, _, _)
sample_groups(sample_data_fields, sample_ids, n) ==
    IF n = 0
    THEN LET first == {k \in 1..Len(sample_ids) :
                          \A j \in 1..(k - 1) : ~JEq(sample_ids[j], sample_ids[k])}
             order == SortedSeq(first)
         IN  [k \in 1..Len(order) |-> <<sample_ids[order[k]], NewSampleGroup(sample_ids[order[k]])>>]
    ELSE LET g          == sample_groups(sample_data_fields, sample_ids, n - 1)
             field      == sample_data_fields[n]
             key        == Underscored(KeyOf(field))
             value      == ValueOf(field)
             sample_id  == Get(field, k_sample_id, JLit("null"))
         IN  IF TypeIs(field, v_sample_field) /\ PyHas(g, sample_id)
             THEN PySet(g, sample_id, RCAssign(PyGet(g, sample_id), key, value))
             ELSE IF TypeIs(field, <<"f", "i", "e", "l", "d">>) /\ Contains(key, <<"t", "o", "t", "a", "l", "_", "n", "u", "m", "b", "e", "r", "_", "o", "f", "_", "c", "o", "n", "t", "a", "i", "n", "e", "r", "s">>)
             THEN [k \in 1..Len(g) |->
                      <<g[k][1], Put(g[k][2], "Total Number of Containers", value)>>]
             ELSE g

\* The analysis requests every sample is given after the first n records
\* (lines 1615-1631): the names of the checked analysis checkboxes, each
\* once, a name being taken from a key 'parameter_...' when the record has
\* none.
RECURSIVE analysis_requests(_, _)
analysis_requests(sample_data_fields, n) ==
    IF n = 0 THEN <<>>
    ELSE LET had   == analysis_requests(sample_data_fields, n - 1)
             field == sample_data_fields[n]
             given == Get(field, k_analysis_name, JLit("null"))
             key   == KeyOf(field)
             analysis_name ==
                 IF ~Truthy(given) /\ StartsWith(key, <<"p", "a", "r", "a", "m", "e", "t", "e", "r", "_">>)
                 THEN JStr(Without(key, <<"p", "a", "r", "a", "m", "e", "t", "e", "r", "_">>))
                 ELSE given
         IN  IF /\ TypeIs(field, v_analysis_checkbox)
                /\ JEq(Get(field, k_value, JStr(v_unchecked)), JStr(v_checked))
                /\ Truthy(analysis_name)
                /\ ~InList(analysis_name, had)
             THEN Append(had, analysis_name)
             ELSE had

\* flat_entry for a sample and an analysis request.
FlatEntry(sample_data, analysis_name) ==
    [slot \in ((DOMAIN sample_data) \ {"analysis_requests"}) \cup {"Analysis Request"} |->
        IF slot = "Analysis Request" THEN analysis_name ELSE sample_data[slot]]

\* restructured_data after the first n entries of sample_groups.
RECURSIVE FlatRows(_, _, _)
FlatRows(groups, requests, n) ==
    IF n = 0 THEN <<>>
    ELSE FlatRows(groups, requests, n - 1)
         \o (IF Len(requests) > 0
             THEN [k \in 1..Len(requests) |-> FlatEntry(groups[n][2], requests[k])]
             ELSE <<FlatEntry(groups[n][2], NIL)>>)

restructure_rc_work_order_data(sample_data_fields, sample_ids) ==
    LET groups == sample_groups(sample_data_fields, sample_ids, Len(sample_data_fields))
    IN  FlatRows(groups, IF Len(groups) = 0 THEN <<>>
                         ELSE analysis_requests(sample_data_fields, Len(sample_data_fields)),
                 Len(groups))
----------------------------------------------------------------------------
(* The comparison of two documents: EnhancedPDFExtractor and                *)
(* AdvancedPDFExtractor                                                     *)

\* A score: len(intersection) / len(union), kept as the fraction in lowest
\* terms, <<0, 1>> for 0 and 0.0.
Ratio(n, d) ==
    LET g == Max({k \in 1..d : n % k = 0 /\ d % k = 0})
    IN  <<n \div g, d \div g>>

\* a > b for two scores
Greater(a, b) == a[1] * b[2] > b[1] * a[2]

\* score > 0.6: the threshold of _create_detailed_mapping, in tenths
DetailedThreshold == 6

\* score > 0.7: the threshold of _create_field_mapping, in tenths
FieldThreshold == 7

\* score > threshold, the threshold in tenths
Exceeds(score, threshold) == 10 * score[1] > threshold * score[2]

\* set(s.split())
Words(s) ==
    LET words == PySplit(s)
    IN  {words[k] : k \in 1..Len(words)}

\* _calculate_similarity as it would be if it counted the words the two
\* strings share against the words of the first string.
_calculate_similarity_of_first(str1, str2) ==
    IF str1 = <<>> \/ str2 = <<>> THEN <<0, 1>>
    ELSE LET words1 == Words(str1)
             words2 == Words(str2)
         IN  IF words1 = {} \/ words2 = {} THEN <<0, 1>>
             ELSE Ratio(Cardinality(words1 \cap words2), Cardinality(words1))

\* _calculate_similarity as it would be if the union held the words the two
\* strings share twice.
_calculate_similarity_of_both(str1, str2) ==
    IF str1 = <<>> \/ str2 = <<>> THEN <<0, 1>>
    ELSE LET words1 == Words(str1)
             words2 == Words(str2)
         IN  IF words1 = {} \/ words2 = {} THEN <<0, 1>>
             ELSE Ratio(Cardinality(words1 \cap words2),
                        Cardinality(words1) + Cardinality(words2))

\* _calculate_similarity, of both classes
_calculate_similarity(str1, str2) ==
    IF str1 = <<>> \/ str2 = <<>> THEN <<0, 1>>
    ELSE LET words1 == Words(str1)
             words2 == Words(str2)
         IN  IF words1 = {} \/ words2 = {} THEN <<0, 1>>
             ELSE Ratio(Cardinality(words1 \cap words2), Cardinality(words1 \cup words2))

\* field.get("key", "").lower().strip()
MatchKey(field) == Strip(LowerStr(Get(field, k_key, JStr(<<>>)).s))

\* best_match and best_score after the first n of filled_fields, as the
\* loop would leave them if best_score took every greater score, above the
\* threshold or not.
RECURSIVE BestOfAll(_, _, _, _)
BestOfAll(template_key, fields, n, threshold) ==
    IF n = 0 THEN [best_match |-> JLit("null"), best_score |-> <<0, 1>>]
    ELSE LET best  == BestOfAll(template_key, fields, n - 1, threshold)
             score == _calculate_similarity(template_key, MatchKey(fields[n]))
         IN  IF Greater(score, best.best_score)
             THEN [best_match |-> IF Exceeds(score, threshold) THEN fields[n]
                                  ELSE best.best_match,
                   best_score |-> score]
             ELSE best

\* best_match and best_score after the first n of filled_fields
RECURSIVE Best(_, _, _, _)
Best(template_key, fields, n, threshold) ==
    IF n = 0 THEN [best_match |-> JLit("null"), best_score |-> <<0, 1>>]
    ELSE LET best  == Best(template_key, fields, n - 1, threshold)
             score == _calculate_similarity(template_key, MatchKey(fields[n]))
         IN  IF Greater(score, best.best_score) /\ Exceeds(score, threshold)
             THEN [best_match |-> fields[n], best_score |-> score]
             ELSE best

\* The entry mapping.append is given for template_field by
\* _create_field_mapping.
Entry(template_field, best) ==
    [template_field    |-> template_field,
     filled_field      |-> best.best_match,
     similarity_score  |-> best.best_score,
     is_matched        |-> best.best_match # JLit("null"),
     key               |-> Get(template_field, k_key, JStr(<<>>)),
     template_value    |-> Get(template_field, k_value, JStr(<<>>)),
     filled_value      |-> IF Truthy(best.best_match)
                           THEN Get(best.best_match, k_value, JStr(<<>>))
                           ELSE JStr(<<"N", "o", "t", " ", "f", "o", "u", "n", "d">>),
     field_type        |-> Get(template_field, k_type, JStr(<<"u", "n", "k", "n", "o", "w", "n">>)),
     extraction_method |-> Get(template_field, k_method, JStr(<<"u", "n", "k", "n", "o", "w", "n">>))]

\* The entry mapping.append is given for template_field by
\* _create_detailed_mapping: it has a page.
DetailedEntry(template_field, best) ==
    [template_field    |-> template_field,
     filled_field      |-> best.best_match,
     similarity_score  |-> best.best_score,
     is_matched        |-> best.best_match # JLit("null"),
     key               |-> Get(template_field, k_key, JStr(<<>>)),
     template_value    |-> Get(template_field, k_value, JStr(<<>>)),
     filled_value      |-> IF Truthy(best.best_match)
                           THEN Get(best.best_match, k_value, JStr(<<>>))
                           ELSE JStr(<<"N", "o", "t", " ", "f", "o", "u", "n", "d">>),
     field_type        |-> Get(template_field, k_type, JStr(<<"u", "n", "k", "n", "o", "w", "n">>)),
     extraction_method |-> Get(template_field, k_method, JStr(<<"u", "n", "k", "n", "o", "w", "n">>)),
     page              |-> Get(template_field, k_page, JNum(<<"1">>))]

\* The mapping for a threshold: one entry for each of the template fields,
\* in their order.
Mapping(templates, fields, threshold) ==
    [k \in 1..Len(templates) |->
        Entry(templates[k], Best(MatchKey(templates[k]), fields, Len(fields), threshold))]

\* _create_detailed_mapping as it would be if no score were above its
\* threshold.
_create_strict_mapping(templates, fields) ==
    [k \in 1..Len(templates) |->
        DetailedEntry(templates[k], Best(MatchKey(templates[k]), fields, Len(fields), 10))]

\* EnhancedPDFExtractor._create_detailed_mapping
_create_detailed_mapping(templates, fields) ==
    [k \in 1..Len(templates) |->
        DetailedEntry(templates[k],
                      Best(MatchKey(templates[k]), fields, Len(fields), DetailedThreshold))]

\* AdvancedPDFExtractor._create_field_mapping
_create_field_mapping(templates, fields) ==
    Mapping(templates, fields, FieldThreshold)
----------------------------------------------------------------------------
(* analyze_with_ai_vision and extract_comprehensive as a state machine      *)

VARIABLES
    document,            \* the kind of document in hand: it picks the texts
                         \* model.generate_content may answer with
    images,              \* len(images): the number of page images
    page,                \* img_info['page'] of the image in hand (0: none yet)
    pc,                  \* where the extraction stands
    attempt,             \* the attempt of the retry loop
    response_text,
    json_str,            \* the brace span handed to the cascade
    arg,                 \* json_str inside repair_truncated_json and its chain
    array_start,
    result,
    idx,                 \* position of the loop over result['extracted_fields']
    all_fields,
    all_checkboxes,
    sample_ids,
    analysis_request,
    sample_analysis_map,
    tried,               \* the stages called for the image in hand, in order
    returned,            \* the text the last stage called gave back
    before,              \* the accumulators when the image in hand was taken up
    log,                 \* one entry per image the loop is done with
    output,              \* what extract_comprehensive returns
    template_fields,     \* the fields extracted from the template document
    filled_fields,       \* the fields extracted from the filled document
    enhanced,            \* what compare_documents_enhanced returns
    advanced,            \* what compare_documents_advanced returns
    str1,                \* the first string _calculate_similarity is given
    str2,                \* the second string _calculate_similarity is given
    score                \* what _calculate_similarity returns

vars == <<document, images, page, pc, attempt, response_text, json_str, arg,
          array_start, result, idx, all_fields, all_checkboxes, sample_ids,
          analysis_request, sample_analysis_map, tried, returned, before, log, output,
          template_fields, filled_fields, enhanced, advanced, str1, str2, score>>

\* What a comparison of two documents works on and returns, and a call of
\* _calculate_similarity by itself.
comparison == <<template_fields, filled_fields, enhanced, advanced, str1, str2, score>>

\* No comparison of documents is in hand.
NoComparison ==
    /\ template_fields = <<>>
    /\ filled_fields = <<>>
    /\ enhanced = [status |-> "none"]
    /\ advanced = [status |-> "none"]
    /\ str1 = <<>>
    /\ str2 = <<>>
    /\ score = <<>>

\* max_retries = 3
max_retries == 3

\* len(response_text) > 100: the basic quality check of the retry loop
QualityLength == 100

\* vision_field_count < 10: the threshold for poor extraction
PoorThreshold == 10

\* The accumulators in the current state.
Accs == Acc(all_fields, all_checkboxes, sample_ids, analysis_request,
            sample_analysis_map, FALSE)

accs == <<all_fields, all_checkboxes, sample_ids, analysis_request, sample_analysis_map>>

\* The locals of one pass of the loop over the images.
locals == <<attempt, response_text, json_str, arg, array_start, result, idx,
            tried, returned>>

\* The accumulators take the values of a.
SetAccs(a) ==
    /\ all_fields' = a.all_fields
    /\ all_checkboxes' = a.all_checkboxes
    /\ sample_ids' = a.sample_ids
    /\ analysis_request' = a.analysis_request
    /\ sample_analysis_map' = a.sample_analysis_map

\* The pass for the image in hand ends (continue, the except clause of the
\* loop body, or the end of the body) with the accumulators as in a; the
\* loop goes on with the next image.
EndUnit(outcome, text, stages, a) ==
    /\ log' = Append(log, [page |-> page, outcome |-> outcome, text |-> text,
                           tried |-> stages, before |-> before, after |-> a])
    /\ pc' = "images"

\* re.search(r'\{.*\}', s, re.DOTALL).group(): from the first "{" to the
\* last "}" after it, None when there is no such pair.  The trim to the
\* last brace that follows in the source leaves this span as it is.
BraceSpan(s) ==
    LET O == {i \in 1..Len(s) : s[i] = "{"}
        C == {i \in 1..Len(s) : s[i] = "}"}
    IN  IF O = {} \/ C = {} \/ Max(C) < Min(O) THEN None
        ELSE SubSeq(s, Min(O), Max(C))

\* cleaned_response, then the brace span: what the direct parse is given.
CleanedSpan(s) == BraceSpan(RemoveEndFence(RemoveJsonFence(s)))

NoAccs ==
    Acc(<<>>, [c \in Categories |-> <<>>], <<>>, <<>>, <<>>, FALSE)

\* No extraction has begun.
NoExtraction(kind, counts) ==
    /\ document = kind
    /\ images \in counts
    /\ page = 0
    /\ pc = "images"
    /\ attempt = 0
    /\ response_text = <<>>
    /\ json_str = <<>>
    /\ arg = <<>>
    /\ array_start = 0
    /\ result = JLit("null")
    /\ idx = 0
    /\ all_fields = <<>>
    /\ all_checkboxes = [c \in Categories |-> <<>>]
    /\ sample_ids = <<>>
    /\ analysis_request = <<>>
    /\ sample_analysis_map = <<>>
    /\ tried = <<>>
    /\ returned = None
    /\ before = NoAccs
    /\ log = <<>>
    /\ output = [status |-> "none"]

InitWith(kind, counts) == NoExtraction(kind, counts) /\ NoComparison

\* for img_info in images: the next image is taken up; response_text = ""
\* and the other locals start afresh.
NextImage ==
    /\ pc = "images"
    /\ page < images
    /\ page' = page + 1
    /\ pc' = "generate"
    /\ attempt' = 0
    /\ response_text' = <<>>
    /\ json_str' = <<>>
    /\ arg' = <<>>
    /\ array_start' = 0
    /\ result' = JLit("null")
    /\ idx' = 0
    /\ tried' = <<>>
    /\ returned' = None
    /\ before' = Accs
    /\ UNCHANGED <<comparison, document, images, accs, log, output>>

\* An attempt of the retry loop as it would be without the test for an
\* empty response_text after the loop.
GenerateUntested(t) ==
    /\ pc = "generate"
    /\ response_text' = t
    /\ attempt' = attempt + 1
    /\ IF Len(t) > QualityLength \/ attempt + 1 = max_retries
       THEN pc' = "clean" /\ UNCHANGED log
       ELSE pc' = "generate" /\ UNCHANGED log
    /\ UNCHANGED <<comparison, document, images, page, json_str, arg, array_start, result, idx,
                   accs, tried, returned, before, output>>

\* One attempt of the retry loop answers with the text t.  A text of more
\* than 100 characters ends the loop; after the last attempt an empty
\* response_text skips the image.
Generate(t) ==
    /\ pc = "generate"
    /\ response_text' = t
    /\ attempt' = attempt + 1
    /\ IF Len(t) > QualityLength \/ (attempt + 1 = max_retries /\ t # <<>>)
       THEN pc' = "clean" /\ UNCHANGED log
       ELSE IF attempt + 1 < max_retries
       THEN pc' = "generate" /\ UNCHANGED log
       ELSE EndUnit("no_response", t, tried, Accs)
    /\ UNCHANGED <<comparison, document, images, page, json_str, arg, array_start, result, idx,
                   accs, tried, returned, before, output>>

\* One attempt of the retry loop raises.  The last attempt re-raises, which
\* the except clause of the loop body turns into the next image; an
\* earlier one sleeps and goes round again.
GenerateRaises ==
    /\ pc = "generate"
    /\ attempt' = attempt + 1
    /\ IF attempt = max_retries - 1
       THEN EndUnit("raised", response_text, tried, Accs)
       ELSE pc' = "generate" /\ UNCHANGED log
    /\ UNCHANGED <<comparison, document, images, page, response_text, json_str, arg, array_start,
                   result, idx, accs, tried, returned, before, output>>

\* The fences are removed and the brace span is searched: without a match
\* the body of the loop has nothing left to do.
Clean ==
    /\ pc = "clean"
    /\ IF CleanedSpan(response_text) = None
       THEN /\ EndUnit("no_json", response_text, tried, Accs)
            /\ UNCHANGED json_str
       ELSE /\ json_str' = CleanedSpan(response_text)
            /\ pc' = "direct"
            /\ UNCHANGED log
    /\ UNCHANGED <<comparison, document, images, page, attempt, response_text, arg, array_start,
                   result, idx, accs, tried, returned, before, output>>

\* A stage called name gave back the text (None: it failed).  On success
\* the driver parses the text into result and goes on to the records; on
\* failure it goes on at the place called otherwise.
StageDone(name, text, otherwise) ==
    /\ tried' = Append(tried, name)
    /\ returned' = text
    /\ IF text # None
       THEN /\ result' = ParseJson(text).v
            /\ pc' = "process"
       ELSE /\ pc' = otherwise
            /\ UNCHANGED result

\* result = json.loads(json_str)
DirectParse ==
    /\ pc = "direct"
    /\ StageDone("direct", IfParses(json_str), "repair_json")
    /\ UNCHANGED <<comparison, document, images, page, attempt, response_text, json_str, arg,
                   array_start, idx, accs, before, log, output>>

\* repaired_json = self.repair_json(json_str)
TryRepairJson ==
    /\ pc = "repair_json"
    /\ StageDone("repair_json", repair_json(json_str), "repair_truncated_json")
    /\ UNCHANGED <<comparison, document, images, page, attempt, response_text, json_str, arg,
                   array_start, idx, accs, before, log, output>>

\* truncated_json = self.repair_truncated_json(json_str): its own attempt;
\* when that does not parse it hands json_str on to
\* extract_largest_valid_json.
TryRepairTruncatedJson ==
    /\ pc = "repair_truncated_json"
    /\ StageDone("repair_truncated_json", IfParses(TruncatedText(json_str)),
                 "extract_largest_valid_json")
    /\ arg' = json_str
    /\ UNCHANGED <<comparison, document, images, page, attempt, response_text, json_str,
                   array_start, idx, accs, before, log, output>>

\* extract_largest_valid_json(arg): the prefix search; when no prefix
\* parses it hands the stripped text on to extract_extracted_fields_only.
TryLargestValidJson ==
    /\ pc = "extract_largest_valid_json"
    /\ StageDone("extract_largest_valid_json", LargestValid(arg),
                 "extract_extracted_fields_only")
    /\ arg' = IF returned' = None THEN StripMarkdown(arg) ELSE arg
    /\ UNCHANGED <<comparison, document, images, page, attempt, response_text, json_str,
                   array_start, idx, accs, before, log, output>>

\* extract_extracted_fields_only(arg): without the marker it gives up; with
\* an array that closes it tests the envelope around the slice and gives up
\* when that does not parse; with an array that does not close it hands on
\* to extract_last_complete_fields.  Giving up sends None back through the
\* chain to the driver, which turns to the emergency extraction.
TryExtractedFieldsOnly ==
    LET Stage(t, found, end_pos) ==
            /\ StageDone("extract_extracted_fields_only",
                         IF found /\ end_pos # 0 THEN IfParses(FieldsOnlyText(t)) ELSE None,
                         IF found /\ end_pos = 0 THEN "extract_last_complete_fields"
                         ELSE "emergency_field_extraction")
            /\ arg' = t
            /\ array_start' = IF found THEN ArrayStart(t) ELSE array_start
        Strip1(t) == Stage(t, MarkerPos(t) # 0, EndPos(t, ArrayStart(t)))
    IN  /\ pc = "extract_extracted_fields_only"
        /\ Strip1(StripMarkdown(arg))
        /\ UNCHANGED <<comparison, document, images, page, attempt, response_text, json_str,
                       idx, accs, before, log, output>>

\* extract_last_complete_fields(arg, array_start): without a position, or
\* with an envelope that does not parse, it hands on to
\* extract_any_complete_fields.
TryLastCompleteFields ==
    /\ pc = "extract_last_complete_fields"
    /\ StageDone("extract_last_complete_fields",
                 IF LastCompletePos(arg, array_start) # 0
                 THEN IfParses(LastCompleteText(arg, array_start)) ELSE None,
                 "extract_any_complete_fields")
    /\ UNCHANGED <<comparison, document, images, page, attempt, response_text, json_str, arg,
                   array_start, idx, accs, before, log, output>>

\* extract_any_complete_fields(arg, array_start): the end of the chain.
TryAnyCompleteFields ==
    /\ pc = "extract_any_complete_fields"
    /\ StageDone("extract_any_complete_fields",
                 FieldsResult(CompleteFields(arg, array_start)),
                 "emergency_field_extraction")
    /\ UNCHANGED <<comparison, document, images, page, attempt, response_text, json_str, arg,
                   array_start, idx, accs, before, log, output>>

\* The emergency extraction as it would be if its failure were raised out
\* of the loop over the images instead of skipping the image.
TryEmergencyExtractionRaising ==
    /\ pc = "emergency_field_extraction"
    /\ returned' = emergency_field_extraction(json_str)
    /\ IF returned' # None
       THEN /\ tried' = Append(tried, "emergency_field_extraction")
            /\ result' = ParseJson(returned').v
            /\ pc' = "process"
            /\ UNCHANGED log
       ELSE /\ tried' = tried \o <<"emergency_field_extraction",
                                   "emergency_field_extraction">>
            /\ log' = Append(log, [page |-> page, outcome |-> "all_failed",
                                   text |-> response_text, tried |-> tried',
                                   before |-> before, after |-> Accs])
            /\ pc' = "vision_done"
            /\ UNCHANGED result
    /\ UNCHANGED <<comparison, document, images, page, attempt, response_text, json_str, arg,
                   array_start, idx, accs, before, output>>

\* emergency_json = self.emergency_field_extraction(json_str).  When it
\* gives None the driver calls it once more on the same text and then
\* skips the image.
TryEmergencyExtraction ==
    /\ pc = "emergency_field_extraction"
    /\ returned' = emergency_field_extraction(json_str)
    /\ IF returned' # None
       THEN /\ tried' = Append(tried, "emergency_field_extraction")
            /\ result' = ParseJson(returned').v
            /\ pc' = "process"
            /\ UNCHANGED log
       ELSE /\ tried' = tried \o <<"emergency_field_extraction",
                                   "emergency_field_extraction">>
            /\ EndUnit("all_failed", response_text, tried', Accs)
            /\ UNCHANGED result
    /\ UNCHANGED <<comparison, document, images, page, attempt, response_text, json_str, arg,
                   array_start, idx, accs, before, output>>

\* if 'extracted_fields' in result: the loop over the records starts; the
\* len() in the log line raises when the value has no length.  The cascade
\* gives the driver nothing but dicts (ResultIsDict).
ProcessResult ==
    /\ pc = "process"
    /\ result.t = "dict"
    /\ IF ~HasKey(result, k_extracted_fields)
       THEN pc' = "mapping" /\ UNCHANGED <<idx, log>>
       ELSE IF NotIterable(Item(result, k_extracted_fields))
       THEN EndUnit("error", response_text, tried, Accs) /\ UNCHANGED idx
       ELSE pc' = "fields" /\ idx' = 1 /\ UNCHANGED log
    /\ UNCHANGED <<comparison, document, images, page, attempt, response_text, json_str, arg,
                   array_start, result, accs, tried, returned, before, output>>

\* One pass of  for field in result['extracted_fields'], or its end.  A
\* pass that raises ends in the except clause of the loop over the images,
\* with whatever the pass and the passes before it have stored.
ProcessField ==
    LET items == Iter(Item(result, k_extracted_fields))
        a     == FieldStep(Accs, items[idx], page)
    IN  /\ pc = "fields"
        /\ IF idx > Len(items)
           THEN pc' = "mapping" /\ UNCHANGED <<idx, accs, log>>
           ELSE /\ SetAccs(a)
                /\ IF a.raised
                   THEN EndUnit("error", response_text, tried, a) /\ UNCHANGED idx
                   ELSE pc' = "fields" /\ idx' = idx + 1 /\ UNCHANGED log
        /\ UNCHANGED <<comparison, document, images, page, attempt, response_text, json_str, arg,
                       array_start, result, tried, returned, before, output>>

\* if 'sample_analysis_mapping' in result: ...; the body of the loop over
\* the images ends here.
ProcessMapping ==
    LET a == MappingStep(Accs, result)
    IN  /\ pc = "mapping"
        /\ SetAccs(a)
        /\ EndUnit(IF a.raised THEN "error" ELSE "ok", response_text, tried, a)
        /\ UNCHANGED <<comparison, document, images, page, attempt, response_text, json_str, arg,
                       array_start, result, idx, tried, returned, before, output>>

\* The loop over the images is over: analyze_with_ai_vision returns the
\* accumulators to extract_comprehensive.
VisionDone ==
    /\ pc = "images"
    /\ page = images
    /\ pc' = "vision_done"
    /\ UNCHANGED <<comparison, document, images, page, locals, accs, before, log, output>>

----------------------------------------------------------------------------
(* extract_comprehensive after analyze_with_ai_vision                       *)

\* confidence >= 0.3, in tenths
ConfidenceFloor == 3

\* The validation loop as it would be if it did not write the validated
\* value back to the record.
Unvalidated(field) == field

\* What the validation loop makes of one record: field['value'] is set to
\* the validated value.
Validated(field) ==
    SetItem(field, k_value,
            JStr(validate_field_value(Get(field, k_key, JStr(<<>>)),
                                      Get(field, k_value, JStr(<<>>)),
                                      Get(field, k_type, JStr(<<>>))).value))

\* The test of the validation loop as it would be with "and" for "or":
\* confidence >= 0.3 and validated_value != "NIL"
RetainedBoth(field) ==
    LET v == validate_field_value(Get(field, k_key, JStr(<<>>)),
                                  Get(field, k_value, JStr(<<>>)),
                                  Get(field, k_type, JStr(<<>>)))
    IN  v.confidence >= ConfidenceFloor /\ v.value # v_NIL

\* confidence >= 0.3 or validated_value != "NIL"
Retained(field) ==
    LET v == validate_field_value(Get(field, k_key, JStr(<<>>)),
                                  Get(field, k_value, JStr(<<>>)),
                                  Get(field, k_type, JStr(<<>>)))
    IN  v.confidence >= ConfidenceFloor \/ v.value # v_NIL

\* validated_fields
validated_fields(extracted_fields) ==
    LET kept == SelectSeq(extracted_fields, Retained)
    IN  [k \in 1..Len(kept) |-> Validated(kept[k])]

sample_keywords ==
    {<<"s", "a", "m", "p", "l", "e", "_", "i", "d">>, <<"m", "a", "t", "r", "i", "x", "_">>, <<"c", "o", "m", "p", "_", "g", "r", "a", "b", "_">>, <<"c", "o", "m", "p", "o", "s", "i", "t", "e", "_", "s", "t", "a", "r", "t", "_">>, <<"c", "o", "m", "p", "o", "s", "i", "t", "e", "_", "e", "n", "d", "_">>,
     <<"c", "o", "l", "l", "e", "c", "t", "e", "d", "_", "c", "o", "m", "p", "o", "s", "i", "t", "e", "_">>, <<"c", "o", "l", "l", "e", "c", "t", "e", "d", "_", "a", "t", "_">>, <<"n", "u", "m", "b", "e", "r", "_", "o", "f", "_", "c", "o", "n", "t", "a", "i", "n", "e", "r", "s", "_">>,
     <<"n", "u", "m", "_", "c", "o", "n", "t", "a", "i", "n", "e", "r", "s", "_">>, <<"r", "e", "s", "u", "l", "t", "_">>, <<"u", "n", "i", "t", "s", "_">>, <<"s", "a", "m", "p", "l", "e", "_", "c", "o", "m", "m", "e", "n", "t", "_">>, <<"a", "n", "a", "l", "y", "s", "i", "s", "_">>,
     <<"l", "a", "j", "_">>, <<"y", "o", "t", "_">>, <<"c", "u", "s", "t", "o", "m", "e", "r", "_", "s", "a", "m", "p", "l", "e", "_">>, <<"r", "e", "s", "i", "d", "u", "a", "l", "_", "c", "h", "l", "o", "r", "i", "d", "e", "_">>,
     <<"c", "o", "n", "t", "a", "i", "n", "e", "r", "_", "c", "o", "u", "n", "t", "_">>, <<"n", "u", "m", "_", "c", "o", "n", "t", "_">>, <<"c", "o", "l", "l", "e", "c", "t", "e", "d", "_", "d", "a", "t", "e", "_">>, <<"c", "o", "l", "l", "e", "c", "t", "e", "d", "_", "t", "i", "m", "e", "_">>}

\* The test of the separation as it would be if it went by the type and
\* the key of a record only.
is_sample_related_by_type(field) ==
    LET field_key_raw == Get(field, k_key, JStr(<<>>))
        field_key     == IF Truthy(field_key_raw) THEN LowerStr(PyStr(field_key_raw)) ELSE <<>>
    IN  \/ TypeIs(field, v_sample_field) \/ TypeIs(field, v_analysis_checkbox)
        \/ \E keyword \in sample_keywords :
               StartsWith(field_key, keyword) \/ Contains(field_key, keyword)

\* is_sample_related
is_sample_related(field) ==
    LET field_key_raw == Get(field, k_key, JStr(<<>>))
        field_key     == IF Truthy(field_key_raw) THEN LowerStr(PyStr(field_key_raw)) ELSE <<>>
    IN  \/ TypeIs(field, v_sample_field) \/ TypeIs(field, v_analysis_checkbox)
        \/ Get(field, k_sample_id, JLit("null")).t # "null"
        \/ Get(field, k_analysis_name, JLit("null")).t # "null"
        \/ \E keyword \in sample_keywords :
               StartsWith(field_key, keyword) \/ Contains(field_key, keyword)

\* A sample_id that cannot be the key of a dict makes the restructuring
\* raise TypeError: an entry of sample_ids, or the sample_id of a
\* sample_field record that is looked up (the standard format looks up the
\* truthy ones only).
Unhashable(sample_data_fields, ids, rc) ==
    \/ \E k \in 1..Len(ids) : ~Hashable(ids[k])
    \/ \E k \in 1..Len(sample_data_fields) :
          LET sample_id == Get(sample_data_fields[k], k_sample_id, JLit("null"))
          IN  /\ TypeIs(sample_data_fields[k], v_sample_field)
              /\ ~Hashable(sample_id)
              /\ rc \/ Truthy(sample_id)

\* What extract_comprehensive returns for the records and the sample_ids
\* analyze_with_ai_vision gave.  With fewer than 10 records it calls
\* self.analyze_text_with_ai, a method the class does not define: the
\* AttributeError lands in the except clause, which returns the error
\* result, as does a TypeError of the restructuring.  A record that is not
\* sample related goes to general_information whatever is_general_related
\* says.
Response(fields, ids) ==
    LET extracted_fields == validated_fields(fields)
        sample_data_information == SelectSeq(extracted_fields, is_sample_related)
        general_information ==
            SelectSeq(extracted_fields, LAMBDA field : ~is_sample_related(field))
        rc == detect_rc_work_order_format(extracted_fields)
    IN  IF Len(fields) < PoorThreshold \/ Unhashable(sample_data_information, ids, rc)
        THEN [status |-> "error"]
        ELSE [extracted_fields |-> extracted_fields,
              general_information |-> general_information,
              sample_data_information |->
                  IF rc
                  THEN restructure_rc_work_order_data(sample_data_information, ids)
                  ELSE restructure_sample_data(sample_data_information, ids, Len(ids))]

\* extract_comprehensive has returned the error result of its except
\* clause, the only result with a 'status'.
Failed == "status" \in DOMAIN output /\ output.status = "error"
\* extract_comprehensive after analyze_with_ai_vision: it returns the
\* response, or the error result of its except clause.
extract_comprehensive ==
    /\ pc = "vision_done"
    /\ output' = Response(all_fields, sample_ids)
    /\ pc' = "returned"
    /\ UNCHANGED <<comparison, document, images, page, locals, accs, before, log>>

----------------------------------------------------------------------------
(* The texts the model answers with                                        *)

\* A record of the response format: {"key": ..., "value": ..., "type": ...}
Field(key, value, type) ==
    JDict(<< <<k_key, JStr(key)>>, <<k_value, JStr(value)>>, <<k_type, JStr(type)>> >>)

\* Records as the prompt asks for them: Name = John (field); Date = 5/1 (header); pH = x (checkbox); sample_id = S1 (sample_field)
FieldPool ==
    <<Field(<<"N", "a", "m", "e">>, <<"J", "o", "h", "n">>, <<"f", "i", "e", "l", "d">>),
      Field(<<"D", "a", "t", "e">>, <<"5", "/", "1">>, <<"h", "e", "a", "d", "e", "r">>),
      Field(<<"p", "H">>, <<"x">>, <<"c", "h", "e", "c", "k", "b", "o", "x">>),
      Field(<<"s", "a", "m", "p", "l", "e", "_", "i", "d">>, <<"S", "1">>, <<"s", "a", "m", "p", "l", "e", "_", "f", "i", "e", "l", "d">>)>>


\* {"key": "8240_S1", "value": "checked", "type": "analysis_checkbox",
\*  "sample_id": "S1", "analysis_name": "8240"}: the example of the prompt.
AnalysisField ==
    JDict(Field(<<"8", "2", "4", "0", "_", "S", "1">>, <<"c", "h", "e", "c", "k", "e", "d">>, <<"a", "n", "a", "l", "y", "s", "i", "s", "_", "c", "h", "e", "c", "k", "b", "o", "x">>).s
          \o << <<k_sample_id, JStr(<<"S", "1">>)>>,
                <<k_analysis_name, JStr(<<"8", "2", "4", "0">>)>> >>)

\* A checkbox record whose value is the number 1, no string.
NumberBox ==
    JDict(<< <<k_key, JStr(<<"p", "H">>)>>, <<k_value, JNum(<<"1">>)>>,
             <<k_type, JStr(v_checkbox)>> >>)

\* {"key": "k"}
KeyOnly == JDict(<< <<k_key, JStr(<<"k">>)>> >>)

\* The first n records of the pool, the pool taken round and round.
Fields(n) == [k \in 1..n |-> FieldPool[((k - 1) % Len(FieldPool)) + 1]]

\* The response the prompt asks for, cut down to the records and one of
\* the fields that follow them.
Document(fields) ==
    JDict(<< <<k_extracted_fields, JList(fields)>>, <<k_sample_ids, JList(<<>>)>> >>)

\* The ways the separators are written: as json.dumps writes them, with no
\* blanks, and with a blank on either side.
Styles ==
    << [item |-> <<",", " ">>, key |-> <<":", " ">>],
       [item |-> <<",">>, key |-> <<":">>],
       [item |-> <<" ", ",", " ">>, key |-> <<" ", ":", " ">>] >>

Written(v, st) == Encode(v, Styles[st].item, Styles[st].key)

\* The number of pages of a document (extract_images_from_pdf reads 5 at
\* most).
MaxUnits == 2

\* The number of records of a response.
MaxFields == 2

\* The number of characters a response may have lost at its end.
MaxMissing == 40

\* t and what is left of t when up to MaxMissing characters are cut off.
Truncations(t) ==
    {SubSeq(t, 1, c) : c \in (IF Len(t) > MaxMissing THEN Len(t) - MaxMissing ELSE 1)..Len(t)}

\* A response in a fence, as the model writes it when it ignores the
\* prompt.
Fenced(t) == <<Tick, Tick, Tick, "j", "s", "o", "n", "\n">> \o t \o <<"\n", Tick, Tick, Tick>>

\* [{"key":"Name","value":"John"},{"key":"Date",
BareArrayCut ==
    <<"[", "{", "\"", "k", "e", "y", "\"", ":", "\"", "N", "a", "m", "e", "\"", ",",
      "\"", "v", "a", "l", "u", "e", "\"", ":", "\"", "J", "o", "h", "n", "\"", "}",
      ",", "{", "\"", "k", "e", "y", "\"", ":", "\"", "D", "a", "t", "e", "\"", ",">>

\* {"extracted_fields":[{"key":"Name","value":"John"},{"key":"Date",
ObjectCut ==
    <<"{", "\"", "e", "x", "t", "r", "a", "c", "t", "e", "d", "_", "f", "i", "e", "l", "d", "s", "\"", ":">>
        \o BareArrayCut

\* "I cannot read this page."
Refusal ==
    <<"I", " ", "c", "a", "n", "n", "o", "t", " ", "r", "e", "a", "d", " ", "t", "h",
      "i", "s", " ", "p", "a", "g", "e", ".">>

\* {"extracted_fields" : [{"key" : "k"}],}
TrailingComma ==
    <<"{", "\"", "e", "x", "t", "r", "a", "c", "t", "e", "d", "_", "f", "i", "e", "l",
      "d", "s", "\"", " ", ":", " ", "[", "{", "\"", "k", "e", "y", "\"", " ", ":", " ",
      "\"", "k", "\"", "}", "]", ",", "}">>

\* {"extracted_fields": [{"key": "k"}]} followed by a stray " }"
StrayBrace == Dumps(JDict(<< <<k_extracted_fields, JList(<<KeyOnly>>)>> >>)) \o <<" ", " ", "}">>

\* {"extracted_fields": [{"key": "k"}] "sample_ids": []}: the comma after
\* the array is missing.
MissingComma ==
    EnvelopeHead \o Dumps(JList(<<KeyOnly>>))
        \o <<" ", "\"", "s", "a", "m", "p", "l", "e", "_", "i", "d", "s", "\"", ":", " ", "[", "]", "}">>

\* {not json}
Garbage ==
    <<"{", "n", "o", "t", " ", "j", "s", "o", "n", "}">>

\* The texts of the pages of a document: a full response, one with ten
\* records, responses cut inside a record, one cut after the records,
\* responses every stage fails on, and one whose second record carries a
\* number where the checkbox value belongs.
UnitTexts ==
    {Dumps(Document(Fields(3) \o <<AnalysisField>>)),
     Dumps(Document([k \in 1..PoorThreshold |-> KeyOnly])),
     SubSeq(Dumps(Document(Fields(2))), 1, 75),
     Dumps(Document(<<FieldPool[1], NumberBox, FieldPool[2]>>)),
     Garbage,
     Refusal,
     <<>>}

\* t followed by as many line ends as it takes for the retry loop to let it
\* pass at the first attempt.
Padded(t) == t \o [k \in 1..(QualityLength + 1 - Len(t)) |-> "\n"]

\* The texts one page is tried on: responses of up to MaxFields records in
\* every style, as an object and as a bare array, whole or cut short.
CascadeTexts ==
    {Padded(t) : t \in
        UNION {Truncations(Written(Document(Fields(n)), st))
                 \cup Truncations(Written(JList(Fields(n)), st)) :
               n \in 1..MaxFields, st \in 1..Len(Styles)}
          \cup {Fenced(Dumps(Document(Fields(1)))), TrailingComma, StrayBrace,
                MissingComma, ObjectCut}}
      \cup {BareArrayCut,
            SubSeq(Dumps(JDict(<< <<k_extracted_fields, JList(Fields(1))>>,
                                  <<k_sample_analysis_mapping, JDict(<<>>)>> >>)), 1, 103)}
      \cup UnitTexts

\* What model.generate_content may answer for a document of the kind.
Responses(kind) == IF kind = "pages" THEN UnitTexts ELSE CascadeTexts
----------------------------------------------------------------------------
(* The records of a chain-of-custody form                                   *)

\* A sample_field record, with the sample_id it carries.
SampleField(key, value, sample_id) ==
    JDict(Field(key, value, v_sample_field).s \o << <<k_sample_id, JStr(sample_id)>> >>)

\* An analysis_checkbox record of the sample S1, with its analysis_name.
Checkbox(key, value, analysis_name) ==
    JDict(Field(key, value, v_analysis_checkbox).s
          \o << <<k_sample_id, JStr(<<"S", "1">>)>>, <<k_analysis_name, JStr(analysis_name)>> >>)

\* The records the samples of a form are read from, in the order of the
\* form: what two samples S1 and S2 show, records that name no sample, a
\* record that is a sample_id itself, the analysis checkboxes of S1 (one
\* of them without the name of its analysis), and two general records.
RecordPool ==
    <<Field(<<"u", "n", "i", "t", "s">>, <<"m", "g">>, v_sample_field),
      SampleField(<<"m", "a", "t", "r", "i", "x">>, <<"D", "W">>, <<"S", "1">>),
      SampleField(<<"m", "a", "t", "r", "i", "x">>, <<"S", "W">>, <<"S", "1">>),
      SampleField(<<"r", "e", "s", "u", "l", "t">>, <<"0", ".", "5", "m", "g">>, <<"S", "1">>),
      SampleField(<<"c", "o", "m", "m", "e", "n", "t">>, <<>>, <<"S", "1">>),
      SampleField(<<"m", "a", "t", "r", "i", "x">>, <<"B", "2">>, <<"S", "2">>),
      SampleField(<<"m", "a", "t", "r", "i", "x">>, <<"D", "W", " ", "G">>, <<"S", "2">>),
      SampleField(<<"m", "a", "t", "r", "i", "x">>, <<"D", "W", "\t", "G">>, <<"S", "2">>),
      SampleField(<<"c", "o", "m", "p", "_", "g", "r", "a", "b">>, <<"C">>, <<"S", "2">>),
      SampleField(<<"_", "u", "n", "i", "t", "s">>, <<"u", "g">>, <<"S", "2">>),
      SampleField(<<"c", "o", "l", "l", "e", "c", "t", "e", "d", "_", "d", "a", "t", "e", "_", "e", "n", "d", "_", "1">>, <<"5", "/", "1">>, <<"S", "1">>),
      SampleField(<<"c", "o", "l", "l", "e", "c", "t", "e", "d", "_", "d", "a", "t", "e", "_", "e", "n", "d", "_", "2">>, <<"5", "/", "2">>, <<"S", "1">>),
      Field(<<"s", "a", "m", "p", "l", "e", "_", "i", "d">>, <<"S", "2">>, v_sample_field),
      Checkbox(<<"p", "H", "_", "S", "1">>, <<"c", "h", "e", "c", "k", "e", "d">>, <<"p", "H">>),
      Checkbox(<<"T", "O", "C", "_", "S", "1">>, <<"c", "h", "e", "c", "k", "e", "d">>, <<"T", "O", "C">>),
      JDict(Field(<<"P", "b", "_", "S", "1">>, <<"c", "h", "e", "c", "k", "e", "d">>, v_analysis_checkbox).s
            \o << <<k_sample_id, JStr(<<"S", "1">>)>> >>),
      Checkbox(<<"H", "g", "_", "S", "1">>, <<"u", "n", "c", "h", "e", "c", "k", "e", "d">>, <<"H", "g">>),
      Field(<<"e", "m", "a", "i", "l">>, <<"b", "a", "d">>, <<"f", "i", "e", "l", "d">>),
      JDict(Field(<<"n", "o", "t", "e">>, <<" ", "x", " ">>, <<"f", "i", "e", "l", "d">>).s \o << <<k_sample_id, JStr(<<"S", "1">>)>> >>),
      Field(<<"c", "o", "m", "m", "e", "n", "t">>, <<"l", "a", "t", "e">>, v_sample_field)>>

\* Records of two samples under keys the first loop has no branch for or
\* the second loop has no skip for: the second loop is the one that places
\* them.
SecondLoopPool ==
    <<SampleField(<<"c", "o", "m", "p", "_", "g", "r", "a", "b">>, <<"C">>, <<"S", "2">>),
      SampleField(<<"g", "r", "a", "b", "_", "c", "o", "m", "p">>, <<"G">>, <<"S", "1">>),
      SampleField(<<"e", "n", "d", "_", "d", "a", "t", "e">>, <<"5", "/", "3">>, <<"S", "1">>),
      SampleField(<<"e", "n", "d", "_", "t", "i", "m", "e">>, <<"0", "9", "3", "0">>, <<"S", "1">>)>>

\* The general records of a form, as many as the threshold for a poor
\* extraction asks for: the company, and fields left empty in the ways
\* forms leave them empty.
GeneralRecords ==
    <<Field(<<"c", "o", "m", "p", "a", "n", "y">>, <<"A", "C", "M", "E">>, <<"f", "i", "e", "l", "d">>),
      Field(<<"p", "r", "o", "j", "e", "c", "t">>, <<>>, <<"f", "i", "e", "l", "d">>),
      Field(<<"c", "o", "n", "t", "a", "c", "t">>, <<" ">>, <<"f", "i", "e", "l", "d">>),
      Field(<<"a", "d", "d", "r", "e", "s", "s">>, <<"n", "/", "a">>, <<"f", "i", "e", "l", "d">>),
      Field(<<"c", "i", "t", "y">>, <<"-">>, <<"f", "i", "e", "l", "d">>),
      Field(<<"s", "t", "a", "t", "e">>, <<"n", "u", "l", "l">>, <<"f", "i", "e", "l", "d">>),
      Field(<<"c", "o", "u", "n", "t", "y">>, <<"N", "o", "n", "e">>, <<"f", "i", "e", "l", "d">>),
      Field(<<"p", "e", "r", "m", "i", "t">>, <<"e", "m", "p", "t", "y">>, <<"f", "i", "e", "l", "d">>),
      Field(<<"q", "u", "o", "t", "e">>, <<"N", "I", "L">>, <<"h", "e", "a", "d", "e", "r">>),
      Field(<<"p", "a", "g", "e">>, <<" ", "1", " ", "o", "f", " ", "1", " ">>, <<"h", "e", "a", "d", "e", "r">>)>>

\* The general records of an R & C Work Order: three of them carry keys
\* the format is known by.
WorkOrderRecords ==
    <<Field(<<"Y", "R", " ", "D", "a", "t", "e">>, <<"2", "4">>, <<"f", "i", "e", "l", "d">>),
      Field(<<"F", "i", "l", "t", "e", "r", "e", "d", "-", "Y", "e", "s", "-", "N", "o">>, <<"Y">>, <<"f", "i", "e", "l", "d">>),
      Field(<<"c", "o", "o", "l", "e", "d", " ", "y", "e", "s", " ", "n", "o">>, <<"N">>, <<"f", "i", "e", "l", "d">>)>>
    \o SubSeq(GeneralRecords, 1, PoorThreshold - 3)

\* The records a work order adds to its general records: the description
\* and the time of a sample, an analysis checkbox and a sample_id.
WorkOrderPool ==
    <<SampleField(<<"s", "a", "m", "p", "l", "e", "_", "d", "e", "s", "c", "r", "i", "p", "t", "i", "o", "n">>, <<"W", "e", "l", "l", " ", "1">>, <<"S", "1">>),
      SampleField(<<"t", "i", "m", "e">>, <<"0", "9", "3", "0">>, <<"S", "1">>),
      Checkbox(<<"p", "H", "_", "S", "1">>, <<"c", "h", "e", "c", "k", "e", "d">>, <<"p", "H">>),
      Field(<<"s", "a", "m", "p", "l", "e", "_", "i", "d">>, <<"S", "2">>, v_sample_field)>>

\* The number of records of a pool a form holds besides the general ones.
MaxRecords == 2

\* The lists of up to MaxRecords records of a pool, in the order of the
\* pool.
Chosen(pool) ==
    UNION {{[k \in 1..n |-> pool[places[k]]] :
               places \in {p \in [1..n -> 1..Len(pool)] :
                              \A k \in 1..(n - 1) : p[k] < p[k + 1]}} :
           n \in 0..MaxRecords}

\* The lists of records of the forms: general records, then records of
\* a pool that goes with them.
Forms ==
    {GeneralRecords \o records : records \in Chosen(RecordPool)}
        \cup {GeneralRecords \o records : records \in Chosen(SecondLoopPool)}
        \cup {WorkOrderRecords \o records : records \in Chosen(WorkOrderPool)}
Init == InitWith("pages", 0..MaxUnits)

InitCascade == InitWith("page", {1})

Next ==
    \/ NextImage
    \/ \E t \in Responses(document) : Generate(t)
    \/ GenerateRaises
    \/ Clean
    \/ DirectParse
    \/ TryRepairJson
    \/ TryRepairTruncatedJson
    \/ TryLargestValidJson
    \/ TryExtractedFieldsOnly
    \/ TryLastCompleteFields
    \/ TryAnyCompleteFields
    \/ TryEmergencyExtraction
    \/ ProcessResult
    \/ ProcessField
    \/ ProcessMapping
    \/ VisionDone
    \/ extract_comprehensive

Spec == Init /\ [][Next]_vars

SpecCascade == InitCascade /\ [][Next]_vars

\* The state in which the response for the only page of a form, read at
\* the first attempt, has come through json.loads as it is: the records
\* are about to be processed.
InitForm(fields) ==
    LET t == Dumps(Document(fields))
    IN  /\ document = "form"
        /\ images = 1
        /\ page = 1
        /\ pc = "process"
        /\ attempt = 1
        /\ response_text = t
        /\ json_str = t
        /\ arg = <<>>
        /\ array_start = 0
        /\ result = Document(fields)
        /\ idx = 0
        /\ all_fields = <<>>
        /\ all_checkboxes = [c \in Categories |-> <<>>]
        /\ sample_ids = <<>>
        /\ analysis_request = <<>>
        /\ sample_analysis_map = <<>>
        /\ tried = <<"direct">>
        /\ returned = t
        /\ before = NoAccs
        /\ log = <<>>
        /\ output = [status |-> "none"]
        /\ NoComparison

InitDocument == \E fields \in Forms : InitForm(fields)

\* What is left of the extraction once the response is parsed.
NextDocument ==
    \/ ProcessResult
    \/ ProcessField
    \/ ProcessMapping
    \/ VisionDone
    \/ extract_comprehensive

SpecDocument == InitDocument /\ [][NextDocument]_vars

\* The cascade hands the driver nothing but dicts.
ResultIsDict == pc = "process" => result.t = "dict"
----------------------------------------------------------------------------
(* compare_documents_enhanced and compare_documents_advanced as a state     *)
(* machine                                                                  *)

\* The fields the filled document may hold.  No two of them have the same
\* key once it is lowered and stripped.
DocumentFields ==
    <<Field(<<"C", "l", "i", "e", "n", "t", " ", "N", "a", "m", "e">>, <<"A", "C", "M", "E">>, <<"t", "e", "x", "t">>),
      Field(<<"c", "l", "i", "e", "n", "t", "_", "n", "a", "m", "e">>, <<"A", "c", "m", "e">>, <<"t", "e", "x", "t">>),
      Field(<<" ", "n", "a", "m", "e", " ", " ", "c", "l", "i", "e", "n", "t", " ">>, <<"A", "1">>, <<"t", "e", "x", "t">>),
      Field(<<"C", "l", "i", "e", "n", "t">>, <<"C">>, <<"t", "e", "x", "t">>),
      Field(<<"c", "l", "i", "e", "n", "t", " ", "n", "a", "m", "e", " ", "i", "d">>, <<"7">>, <<"t", "e", "x", "t">>),
      Field(<<"i", "d", " ", "x", " ", "n", "a", "m", "e", " ", "y", " ", "c", "l", "i", "e", "n", "t">>, <<"9">>, <<"t", "e", "x", "t">>),
      JDict(<< <<k_value, JStr(<<"v", "o", "i", "d">>)>> >>)>>

\* The fields the template document may hold: the keys Client Name,
\* Client and client name id, and the field without a key.
TemplateFields ==
    <<DocumentFields[1], DocumentFields[4], DocumentFields[5], DocumentFields[7]>>

\* The number of fields of the template document.
MaxTemplate == 2

\* The number of fields of the filled document.
MaxFilled == 2

\* The lists of n fields of the pool, in any order, none of them twice.
Arranged(n) ==
    {[k \in 1..n |-> DocumentFields[places[k]]] :
        places \in {p \in [1..n -> 1..Len(DocumentFields)] :
                       \A j, k \in 1..n : j # k => p[j] # p[k]}}

\* The lists of n fields of the template, in the order of the pool.
Selected(n) ==
    {[k \in 1..n |-> TemplateFields[places[k]]] :
        places \in {p \in [1..n -> 1..Len(TemplateFields)] :
                       \A k \in 1..(n - 1) : p[k] < p[k + 1]}}

\* What an extraction works on and returns.
extraction == <<document, images, page, pc, locals, accs, before, log, output>>

\* The two documents have been read.
InitComparison ==
    /\ NoExtraction("pages", {0})
    /\ template_fields \in UNION {Selected(n) : n \in 0..MaxTemplate}
    /\ filled_fields \in UNION {Arranged(n) : n \in 0..MaxFilled}
    /\ enhanced = [status |-> "none"]
    /\ advanced = [status |-> "none"]
    /\ str1 = <<>>
    /\ str2 = <<>>
    /\ score = <<>>

\* compare_documents_enhanced, once the fields of the two documents are
\* extracted.
compare_documents_enhanced ==
    /\ enhanced.status = "none"
    /\ LET field_mapping == _create_detailed_mapping(template_fields, filled_fields)
       IN  enhanced' =
               [status              |-> "success",
                field_mapping       |-> field_mapping,
                mapped_fields_count |-> Len(field_mapping),
                successfully_mapped |->
                    Cardinality({k \in 1..Len(field_mapping) : field_mapping[k].is_matched})]
    /\ UNCHANGED <<extraction, template_fields, filled_fields, advanced, str1, str2, score>>

\* compare_documents_advanced, once the fields of the two documents are
\* extracted.
compare_documents_advanced ==
    /\ advanced.status = "none"
    /\ LET field_mapping == _create_field_mapping(template_fields, filled_fields)
       IN  advanced' =
               [status              |-> "success",
                field_mapping       |-> field_mapping,
                mapped_fields_count |-> Len(field_mapping)]
    /\ UNCHANGED <<extraction, template_fields, filled_fields, enhanced, str1, str2, score>>

NextComparison ==
    \/ compare_documents_enhanced
    \/ compare_documents_advanced

SpecComparison == InitComparison /\ [][NextComparison]_vars

----------------------------------------------------------------------------
(* _calculate_similarity, called by itself                                  *)

\* The words of the keys.
KeyWords == {<<"c", "l", "i", "e", "n", "t">>, <<"n", "a", "m", "e">>, <<"i", "d">>}

\* The number of words of a key.
MaxWords == 2

\* The words of a list with sep between them.
RECURSIVE Joined(_, _)
Joined(words, sep) ==
    IF Len(words) = 0 THEN <<>>
    ELSE IF Len(words) = 1 THEN words[1]
    ELSE words[1] \o sep \o Joined(Tail(words), sep)

\* The keys: up to MaxWords words, one of them perhaps twice, with blanks
\* or with underscores between them.
KeyTexts ==
    {Joined(words, sep) :
        words \in UNION {[1..n -> KeyWords] : n \in 0..MaxWords},
        sep \in {<<" ">>, <<"_">>}}

\* Two keys are in hand.
InitSimilarity ==
    /\ NoExtraction("pages", {0})
    /\ template_fields = <<>>
    /\ filled_fields = <<>>
    /\ enhanced = [status |-> "none"]
    /\ advanced = [status |-> "none"]
    /\ str1 \in KeyTexts
    /\ str2 \in KeyTexts
    /\ score = <<>>

\* self._calculate_similarity(str1, str2)
CalculateSimilarity ==
    /\ score = <<>>
    /\ score' = _calculate_similarity(str1, str2)
    /\ UNCHANGED <<extraction, template_fields, filled_fields, enhanced, advanced, str1, str2>>

NextSimilarity == CalculateSimilarity

SpecSimilarity == InitSimilarity /\ [][NextSimilarity]_vars
----------------------------------------------------------------------------
(* The recovery cascade                                                     *)

\* The cascade has been given the text of a log entry: the generator has
\* answered with it.
Answered(e) == e.outcome # "raised"

\* The number of records the image of a log entry has added to all_fields.
Contributed(e) == Len(e.after.all_fields) - Len(e.before.all_fields)

\* The number of complete elements of a records array that is cut inside
\* the element after them (-1: the text is not of that kind).  The records
\* array is the first "[" outside the strings; its elements are the objects
\* one level below it; the array is not closed and one element is open.
CompleteBeforeCut(s) ==
    LET L      == Lex(s)
        arrays == {k \in L.op : s[k] = "["}
        a      == Min(arrays)
        opened == {k \in L.op : k > a /\ s[k] = "{" /\ L.dep[k] = L.dep[a] + 1}
        closed == {k \in L.cl : k > a /\ s[k] = "}" /\ L.dep[k + 1] = L.dep[a] + 1}
    IN  IF /\ arrays # {}
           /\ \A k \in L.cl : k > a => L.dep[k + 1] > L.dep[a]
           /\ Cardinality(opened) = Cardinality(closed) + 1
        THEN Cardinality(closed)
        ELSE 0 - 1

\* C1: a text whose records array holds N complete elements and then one
\* element that is cut off yields exactly N records for its image.
C1_ExactlyN ==
    \A k \in 1..Len(log) :
        (Answered(log[k]) /\ CompleteBeforeCut(log[k].text) >= 0)
            => Contributed(log[k]) = CompleteBeforeCut(log[k].text)

\* C2: the text [{"key":"Name","value":"John"},{"key":"Date", yields exactly
\* one record, with the key Name and the value John.
C2_NameJohn ==
    \A k \in 1..Len(log) :
        (Answered(log[k]) /\ log[k].text = BareArrayCut) =>
            /\ Contributed(log[k]) = 1
            /\ JEq(Get(log[k].after.all_fields[Len(log[k].after.all_fields)],
                       k_key, JLit("null")),
                   JStr(<<"N", "a", "m", "e">>))
            /\ JEq(Get(log[k].after.all_fields[Len(log[k].after.all_fields)],
                       k_value, JLit("null")),
                   JStr(<<"J", "o", "h", "n">>))

\* The closers a text lacks at its end: one for every bracket still open,
\* the innermost first.
MissingClosers(s) ==
    LET L    == Lex(s)
        open == SortedSeq({k \in L.op : \A c \in L.cl : c > k => L.dep[c + 1] > L.dep[k]})
    IN  [i \in 1..Len(open) |->
            IF s[open[Len(open) + 1 - i]] = "{" THEN "}" ELSE "]"]

\* s is valid but for the closers missing at its end.
ValidButUnclosed(s) == MissingClosers(s) # <<>> /\ ParseJson(s \o MissingClosers(s)).ok

\* C3: on a text that is valid but for the closing braces and brackets
\* missing at its end, repair_json gives back a text that parses.
C3_RepairCloses ==
    (tried = <<"direct", "repair_json">> /\ ValidButUnclosed(json_str))
        => (returned # None /\ ParseJson(returned).ok)

\* The place of a stage in the order of the cascade; the two functions of
\* the partial-element salvage share one place.
StageRank(name) ==
    CASE name = "direct" -> 1
      [] name = "repair_json" -> 2
      [] name = "repair_truncated_json" -> 3
      [] name = "extract_largest_valid_json" -> 4
      [] name = "extract_extracted_fields_only" -> 5
      [] name = "extract_last_complete_fields" -> 6
      [] name = "extract_any_complete_fields" -> 6
      [] name = "emergency_field_extraction" -> 7

\* C4: the stages are tried in their order, none is left out, and a stage
\* is tried only after every stage before it has failed: the stages tried
\* so far are those of the places 1..n, in that order, and only the last
\* of them can have given a text back.
C4_StagesInOrder ==
    /\ \A i \in 1..Len(tried) :
          StageRank(tried[i]) \in
              (IF i = 1 THEN {1}
               ELSE {StageRank(tried[i - 1]), StageRank(tried[i - 1]) + 1})
    /\ \A k \in 1..Len(log) : \A i \in 1..Len(log[k].tried) :
          StageRank(log[k].tried[i]) \in
              (IF i = 1 THEN {1}
               ELSE {StageRank(log[k].tried[i - 1]), StageRank(log[k].tried[i - 1]) + 1})
    /\ pc = "process" => ParseJson(returned).v = result

\* The minimal top-level shape: an object that holds extracted_fields.
HasShape(text) ==
    /\ ParseJson(text).ok
    /\ ParseJson(text).v.t = "dict"
    /\ HasKey(ParseJson(text).v, k_extracted_fields)

\* C5: the text a stage after the direct parse gives back parses and is an
\* object that holds extracted_fields.
C5_SuccessHasShape ==
    (tried # <<>> /\ tried[Len(tried)] # "direct" /\ returned # None)
        => HasShape(returned)

\* C6: when the text names the array and the array closes,
\* extract_extracted_fields_only gives back the envelope around exactly the
\* span of the array.
C6_ArrayExtracted ==
    (/\ tried # <<>>
     /\ tried[Len(tried)] = "extract_extracted_fields_only"
     /\ MarkerPos(arg) # 0
     /\ EndPos(arg, ArrayStart(arg)) # 0)
        => returned = Envelope(Slice(arg, ArrayStart(arg), EndPos(arg, ArrayStart(arg))))

\* s carries no fence.
NoFence(s) == Find(s, <<Tick, Tick, Tick>>) = 0

\* C7: a text that parses as it is and carries no fence reaches the direct
\* parse as it was but for the whitespace around it, and cleaning it once
\* more changes nothing.
C7_ValidUnchanged ==
    (pc = "direct" /\ NoFence(response_text) /\ ParseJson(response_text).ok)
        => (json_str = Strip(response_text) /\ CleanedSpan(json_str) = json_str)

----------------------------------------------------------------------------
(* The loop over the images and the result of the extraction                *)

\* Two lists of parsed values are the same.
SameList(x, y) == Len(x) = Len(y) /\ \A i \in 1..Len(x) : JEq(x[i], y[i])

\* The image of a log entry has left the accumulators as it found them.
Untouched(e) ==
    /\ SameList(e.after.all_fields, e.before.all_fields)
    /\ SameList(e.after.sample_ids, e.before.sample_ids)
    /\ SameList(e.after.analysis_request, e.before.analysis_request)
    /\ Len(e.after.sample_analysis_map) = Len(e.before.sample_analysis_map)
    /\ \A c \in Categories :
          Len(e.after.all_checkboxes[c]) = Len(e.before.all_checkboxes[c])

\* C8: an image every stage fails on adds no record and leaves the records
\* of the images before it as they were; the loop goes on to the images
\* after it, so that every image has been taken up when
\* analyze_with_ai_vision returns.
C8_AllFailedHarmless ==
    /\ \A k \in 1..Len(log) :
          /\ log[k].page = k
          /\ log[k].outcome = "all_failed" => Untouched(log[k])
    /\ pc \in {"vision_done", "returned"} => Len(log) = images

\* Every stage has failed on the first image, and the second image has
\* added its records.
C8_FailedThenRecords ==
    /\ pc = "vision_done"
    /\ Len(log) = 2
    /\ log[1].outcome = "all_failed"
    /\ log[2].outcome = "ok"
    /\ Contributed(log[2]) > 0

\* C9: extract_comprehensive returns the error result only when no record
\* at all has been recovered; with one record or more it returns the
\* document.
C9_ErrorOnlyWhenEmpty ==
    pc = "returned" =>
        (Failed <=> Len(all_fields) = 0)

\* C10: an image whose processing fails, be it in the middle of its
\* records, adds nothing to the accumulators, and the images after it are
\* taken up.
C10_FailedUnitEmpty ==
    /\ \A k \in 1..Len(log) : log[k].outcome # "ok" => Untouched(log[k])
    /\ pc \in {"vision_done", "returned"} => Len(log) = images

----------------------------------------------------------------------------
(* The document extract_comprehensive returns                               *)

\* extract_comprehensive has returned the document.
Returned == pc = "returned" /\ ~Failed

\* The records the separation hands to the restructuring.
SampleRecords == SelectSeq(output.extracted_fields, is_sample_related)

\* The document went through restructure_sample_data, not through
\* restructure_rc_work_order_data.
Standard == ~detect_rc_work_order_format(output.extracted_fields)

\* The names of the canonical slots.
SlotNames == {Slots[k] : k \in 1..Len(Slots)}

\* The records restructure_sample_data has grouped under sample_id.
GroupOf(sample_id) ==
    LET groups == sample_field_groups(SampleRecords, Len(SampleRecords)).groups
    IN  IF PyHas(groups, sample_id) THEN PyGet(groups, sample_id) ELSE <<>>

\* sample_info of sample_id after the first n records of its group have
\* gone through the first loop.
AfterRecord(sample_id, n) ==
    PrimaryPass(NewSampleInfo(sample_id), GroupOf(sample_id), sample_id, n)

\* C11: in restructure_sample_data the first record of an entity that
\* matches a slot fills it, and no later record of the entity changes a slot
\* that is already filled.
C11_FirstMatchWins ==
    (Returned /\ Standard) =>
        \A e \in 1..Len(sample_ids) :
            \A n \in 1..Len(GroupOf(sample_ids[e])) :
                \A slot \in SlotNames :
                    AfterRecord(sample_ids[e], n - 1)[slot] # NIL
                        => AfterRecord(sample_ids[e], n)[slot]
                               = AfterRecord(sample_ids[e], n - 1)[slot]

\* The rows of the returned document that bear sample_id.
RowsOf(sample_id) ==
    SelectSeq(output.sample_data_information,
              LAMBDA row : JEq(row["Customer Sample ID"], sample_id))

\* The positions of the analysis_checkbox records of sample_id whose value
\* is 'checked'.
CheckedOf(sample_id) ==
    {k \in 1..Len(SampleRecords) :
        /\ TypeIs(SampleRecords[k], v_analysis_checkbox)
        /\ JEq(Get(SampleRecords[k], k_sample_id, JLit("null")), sample_id)
        /\ JEq(Get(SampleRecords[k], k_value, JLit("null")), JStr(v_checked))}

\* C12: an entity of sample_ids with n >= 1 checked analysis_checkbox
\* records has exactly n rows, which agree on every canonical slot; an
\* entity with none has exactly one row, whose analysis_request is NIL.
C12_RowExpansion ==
    (Returned /\ Standard) =>
        \A e \in 1..Len(sample_ids) :
            LET rows == RowsOf(sample_ids[e])
                n    == Cardinality(CheckedOf(sample_ids[e]))
            IN  IF n >= 1
                THEN /\ Len(rows) = n
                     /\ \A k \in 1..Len(rows) : \A slot \in SlotNames :
                            rows[k][slot] = rows[1][slot]
                ELSE /\ Len(rows) = 1
                     /\ rows[1]["analysis_request"] = NIL

\* sample_info of sample_id when the two loops over the records are done,
\* and what the special cases of lines 1341-1375 make of it.
BeforeSplit(sample_id) == Assigned(SampleRecords, sample_id)

AfterSplit(sample_id) == CompoundSplit(BeforeSplit(sample_id))

\* A letter followed by a digit, as in "B2".
LetterDigit(s) == Len(s) = 2 /\ s[1] \in Letters /\ s[2] \in Digit

\* text is number, then unit, with no more than whitespace between them.
NumberThenUnit(text, number, unit) ==
    /\ number # <<>> /\ \A k \in 1..Len(number) : number[k] \in Digit \cup {"."}
    /\ unit # <<>> /\ \A k \in 1..Len(unit) : unit[k] \in Letters \cup {"/"}
    /\ \E blank \in 0..Len(text) :
          /\ Len(text) = Len(number) + blank + Len(unit)
          /\ SubSeq(text, 1, Len(number)) = number
          /\ \A k \in (Len(number) + 1)..(Len(number) + blank) : text[k] \in PyWS
          /\ SubSeq(text, Len(number) + blank + 1, Len(text)) = unit

\* C13: with Comp/Grab still NIL, a Matrix of two whitespace-separated
\* tokens, or of a letter and a digit, is split between Matrix and
\* Comp/Grab; with Residual Chloride Units still NIL, a Residual Chloride
\* Result of a number and a unit is split between the two slots; with the
\* paired slot not NIL neither slot changes.
C13_CompoundSplit ==
    (Returned /\ Standard) =>
        \A e \in 1..Len(sample_ids) :
            LET info   == BeforeSplit(sample_ids[e])
                split  == AfterSplit(sample_ids[e])
                matrix == info["Matrix"].s
                words  == PySplit(matrix)
                whole  == Strip(info["Residual Chloride Result"].s)
            IN  /\ (info["Comp/Grab"] = NIL /\ Len(words) = 2)
                       => /\ split["Matrix"] = JStr(words[1])
                          /\ split["Comp/Grab"] = JStr(words[2])
                /\ (info["Comp/Grab"] = NIL /\ LetterDigit(matrix))
                       => /\ split["Matrix"] = JStr(<<matrix[1]>>)
                          /\ split["Comp/Grab"] = JStr(<<matrix[2]>>)
                /\ (/\ info["Residual Chloride Units"] = NIL
                    /\ \E n \in 1..Len(whole) : \E m \in (n + 1)..Len(whole) :
                          NumberThenUnit(whole, SubSeq(whole, 1, n),
                                         SubSeq(whole, m, Len(whole))))
                       => NumberThenUnit(whole, split["Residual Chloride Result"].s,
                                         split["Residual Chloride Units"].s)
                /\ info["Comp/Grab"] # NIL
                       => /\ split["Matrix"] = info["Matrix"]
                          /\ split["Comp/Grab"] = info["Comp/Grab"]
                /\ info["Residual Chloride Units"] # NIL
                       => /\ split["Residual Chloride Result"]
                                 = info["Residual Chloride Result"]
                          /\ split["Residual Chloride Units"]
                                 = info["Residual Chloride Units"]

\* The sample_field records the restructuring has been given.
TableRecords == SampleFields(SampleRecords)

\* The place of the record at position i of records in the table of the
\* fallback: the keys of the table stand in the order of their first
\* record, the values under one key in the order of their records.
TablePlace(records, i) ==
    <<Min({j \in 1..Len(records) : KeyOf(records[j]) = KeyOf(records[i])}), i>>

\* The positions of the records whose key matches the fallback of slot and
\* whose value is not NIL.
Candidates(records, slot) ==
    {i \in 1..Len(records) :
        FallbackKey(slot, KeyOf(records[i])) /\ ValueOf(records[i]) # NIL}

\* The one of the positions found that comes first in the order of the
\* table.
FirstCandidate(records, found) ==
    LET place == [i \in found |-> TablePlace(records, i)]
    IN  CHOOSE i \in found :
            \A j \in found :
                \/ place[i][1] < place[j][1]
                \/ place[i][1] = place[j][1] /\ i <= j

\* The value the fallback is to give to slot: NIL if no record is a
\* candidate.
FallbackValue(records, slot) ==
    LET found == Candidates(records, slot)
    IN  IF found = {} THEN NIL ELSE ValueOf(records[FirstCandidate(records, found)])

\* C14: a slot that is still NIL after the loops over the records and the
\* compound split takes the first value that is not NIL, in the order of
\* the table, of the sample_field records of any entity whose key matches
\* the fallback of the slot; the slot is NIL in a row only if there is no
\* such record.
C14_GlobalFallback ==
    (Returned /\ Standard) =>
        LET records == TableRecords
            value   == [slot \in SlotNames |-> FallbackValue(records, slot)]
        IN  \A e \in 1..Len(sample_ids) :
                LET split == AfterSplit(sample_ids[e])
                    rows  == RowsOf(sample_ids[e])
                IN  \A r \in 1..Len(rows) : \A slot \in SlotNames :
                        /\ split[slot] = NIL => rows[r][slot] = value[slot]
                        /\ rows[r][slot] = NIL => value[slot] = NIL

\* The fallback has filled a slot of an entity for which two records with
\* different values were candidates.
C14_FallbackFilled ==
    /\ Returned /\ Standard
    /\ \E e \in 1..Len(sample_ids) : \E slot \in SlotNames :
          /\ AfterSplit(sample_ids[e])[slot] = NIL
          /\ RowsOf(sample_ids[e])[1][slot] # NIL
          /\ \E i, j \in Candidates(TableRecords, slot) :
                ValueOf(TableRecords[i]) # ValueOf(TableRecords[j])

\* The sample_id each of the records carries, None if it has none.
ExplicitIds(records) ==
    [i \in 1..Len(records) |->
        LET sample_id == Get(records[i], k_sample_id, JLit("null"))
        IN  IF Truthy(sample_id) THEN sample_id ELSE JLit("null")]

\* The positions of the records that have no sample_id of their own and the
\* key 'sample_id'.
NamingEntity(records) ==
    {i \in 1..Len(records) :
        ExplicitIds(records)[i] = JLit("null") /\ KeyOf(records[i]) = <<"s", "a", "m", "p", "l", "e", "_", "i", "d">>}

\* The records at the positions P, in record order.
RecordsAt(records, P) == [k \in 1..Cardinality(P) |-> records[SortedSeq(P)[k]]]

\* The entity of each of the records if the records that carry a sample_id
\* are the only ones to set the current entity: its own, or that of the
\* last record before it that carries one, or None.
ExplicitEntities(records) ==
    LET ids == ExplicitIds(records)
    IN  [i \in 1..Len(records) |->
            LET set == {j \in 1..i : ids[j] # JLit("null")}
            IN  IF set = {} THEN JLit("null") ELSE ids[Max(set)]]

\* Every group holds the records of its entity, in record order, and every
\* entity of a record has its group.
GroupedBy(records, groups, entity) ==
    /\ \A g \in 1..Len(groups) :
          groups[g][2] = RecordsAt(records, {i \in 1..Len(records) :
                                                entity[i] = groups[g][1]})
    /\ \A i \in 1..Len(records) :
          entity[i] # JLit("null") => PyHas(groups, entity[i])

\* C15 as the specification states it: a sample_field record that carries a
\* sample_id belongs to that entity and makes it the current one, a record
\* without one belongs to the current entity, or to none if none is set,
\* and no record belongs to two entities.
C15_EntityCursor ==
    (Returned /\ Standard) =>
        LET records == SampleRecords
            fields  == SampleFields(records)
        IN  GroupedBy(fields, sample_field_groups(records, Len(records)).groups,
                      ExplicitEntities(fields))

\* The entity of each of the records: its own sample_id; none for a record
\* that names an entity; for any other the current entity, which is the
\* sample_id of the last record before it that carries one or the value of
\* the last record that names an entity, whichever came later.
Entities(records) ==
    LET ids    == ExplicitIds(records)
        naming == NamingEntity(records)
    IN  [i \in 1..Len(records) |->
            LET set    == {j \in 1..i : ids[j] # JLit("null") \/ j \in naming}
                cursor == IF set = {} THEN JLit("null")
                          ELSE IF Max(set) \in naming THEN ValueOf(records[Max(set)])
                          ELSE ids[Max(set)]
            IN  IF ids[i] # JLit("null") THEN ids[i]
                ELSE IF i \in naming THEN JLit("null")
                ELSE IF Truthy(cursor) THEN cursor
                ELSE JLit("null")]

\* C15, amended: a sample_field record that carries a sample_id belongs to
\* that entity and makes it the current one; a record without one whose key
\* is 'sample_id' makes its value the current entity and belongs to no
\* entity; any other record without one belongs to the current entity, or
\* to none if none is set; no record belongs to two entities.
C15_EntityCursorNamed ==
    (Returned /\ Standard) =>
        LET records == SampleRecords
            fields  == SampleFields(records)
        IN  GroupedBy(fields, sample_field_groups(records, Len(records)).groups,
                      Entities(fields))

\* A record without a sample_id has gone to the entity a record with the
\* key 'sample_id' had named.
C15_NamedThenAttributed ==
    /\ Returned /\ Standard
    /\ \E i \in 1..Len(TableRecords) : \E j \in 1..(i - 1) :
          /\ j \in NamingEntity(TableRecords)
          /\ ExplicitIds(TableRecords)[i] = JLit("null")
          /\ i \notin NamingEntity(TableRecords)
          /\ Entities(TableRecords)[i] = ValueOf(TableRecords[j])
          /\ \E k \in 1..Len(GroupOf(ValueOf(TableRecords[j]))) :
                GroupOf(ValueOf(TableRecords[j]))[k] = TableRecords[i]

\* Every canonical slot of row holds NIL or a string that is not empty.
SlotsFilled(row) ==
    \A slot \in SlotNames :
        /\ slot \in DOMAIN row
        /\ row[slot] = NIL \/ (row[slot].t = "str" /\ row[slot].s # <<>>)

\* C16 as the specification states it: in every row of a returned document
\* each canonical slot holds NIL or a string that is not empty.
C16_SlotsNilOrFilled ==
    Returned =>
        \A r \in 1..Len(output.sample_data_information) :
            SlotsFilled(output.sample_data_information[r])

\* C16, amended: in every row of a returned document that is not in R & C
\* Work Order format each canonical slot holds NIL or a string that is not
\* empty.
C16_StandardSlotsNilOrFilled ==
    (Returned /\ Standard) =>
        \A r \in 1..Len(output.sample_data_information) :
            SlotsFilled(output.sample_data_information[r])

\* A row holds a value in one slot and NIL in another, and a sample_field
\* record of its entity came with a blank value.
C16_BlankValueRow ==
    /\ Returned /\ Standard
    /\ \E r \in 1..Len(output.sample_data_information) :
          LET row == output.sample_data_information[r]
          IN  /\ \E slot \in SlotNames : row[slot] # NIL
              /\ \E slot \in SlotNames : row[slot] = NIL
              /\ \E k \in 1..Len(all_fields) :
                    /\ TypeIs(all_fields[k], v_sample_field)
                    /\ JEq(Get(all_fields[k], k_sample_id, JLit("null")),
                           row["Customer Sample ID"])
                    /\ Strip(Get(all_fields[k], k_value, JStr(<<>>)).s) = <<>>

\* The empty and placeholder values of the specification, in lower case.
Placeholders == {<<>>, <<"n", "/", "a">>, <<"-">>, <<"n", "u", "l", "l">>, <<"n", "o", "n", "e">>, <<"e", "m", "p", "t", "y">>}

\* The value of a record, trimmed.
Trimmed(field) == Strip(PyStr(Get(field, k_value, JStr(<<>>))))

\* C17: validate_field_value gives NIL for a value that, trimmed and in
\* lower case, is one of "", "n/a", "-", "null", "none", "empty", and the
\* trimmed value for any other.
C17_PlaceholderToNil ==
    (Returned /\ Len(output.extracted_fields) = Len(all_fields)) =>
        \A k \in 1..Len(all_fields) :
            Item(output.extracted_fields[k], k_value)
                = IF LowerStr(Trimmed(all_fields[k])) \in Placeholders THEN NIL
                  ELSE JStr(Trimmed(all_fields[k]))

\* What validate_field_value gives for the record at position k of
\* all_fields.
Verdict(k) ==
    validate_field_value(Get(all_fields[k], k_key, JStr(<<>>)),
                         Get(all_fields[k], k_value, JStr(<<>>)),
                         Get(all_fields[k], k_type, JStr(<<>>)))

Carries(field, name) ==
    LET v == Get(field, name, JLit("null"))
    IN  v.t = "str" /\ v.s # <<>>

\* C19: every analysis_checkbox record of the validated record list of a
\* returned document carries a sample_id and an analysis_name, neither of
\* them empty.
C19_CheckboxCarriesBoth ==
    Returned =>
        \A k \in 1..Len(output.extracted_fields) :
            TypeIs(output.extracted_fields[k], v_analysis_checkbox)
                => /\ Carries(output.extracted_fields[k], k_sample_id)
                   /\ Carries(output.extracted_fields[k], k_analysis_name)

\* The three sections of the document.
Sections == {"extracted_fields", "general_information", "sample_data_information"}

\* field belongs to an entity: by its type, or by a sample_id or an
\* analysis_name it carries.
EntityScoped(field) ==
    \/ TypeIs(field, v_sample_field) \/ TypeIs(field, v_analysis_checkbox)
    \/ Get(field, k_sample_id, JLit("null")) # JLit("null")
    \/ Get(field, k_analysis_name, JLit("null")) # JLit("null")

\* The members of a list.
Members(list) == {list[k] : k \in 1..Len(list)}

\* C20: a returned document has the three sections extracted_fields,
\* general_information and sample_data_information and no other; every
\* record of extracted_fields is in the general set or in the sample set
\* and not in both; no record that belongs to an entity is in
\* general_information.
C20_ThreeSections ==
    Returned =>
        LET general == output.general_information
            sample  == SampleRecords
        IN  /\ DOMAIN output = Sections
            /\ Members(general) \cup Members(sample) = Members(output.extracted_fields)
            /\ Members(general) \cap Members(sample) = {}
            /\ Len(general) + Len(sample) = Len(output.extracted_fields)
            /\ \A k \in 1..Len(general) : ~EntityScoped(general[k])

\* The document holds general records, and a record of type 'field' that
\* carries a sample_id has gone to the sample set.
C20_FieldOfAnEntity ==
    /\ Returned
    /\ output.general_information # <<>>
    /\ \E k \in 1..Len(SampleRecords) :
          /\ TypeIs(SampleRecords[k], <<"f", "i", "e", "l", "d">>)
          /\ Carries(SampleRecords[k], k_sample_id)
----------------------------------------------------------------------------
(* The comparison of two documents: what it is to do                        *)

\* compare_documents_enhanced has returned.
Enhanced == enhanced.status = "success"

\* compare_documents_advanced has returned.
Advanced == advanced.status = "success"

\* The key of a field as the document gives it.
RawKey(field) == Get(field, k_key, JStr(<<>>)).s

\* The field with the key "client_name" is one of the candidates.
ClientNameOffered ==
    \E f \in 1..Len(filled_fields) : RawKey(filled_fields[f]) = <<"c", "l", "i", "e", "n", "t", "_", "n", "a", "m", "e">>

\* The entries of a mapping that stand for the key "Client Name" are matched
\* at the score 1.0.
ClientNameMatched(mapping) ==
    \A k \in 1..Len(mapping) :
        RawKey(mapping[k].template_field) = <<"C", "l", "i", "e", "n", "t", " ", "N", "a", "m", "e">> =>
            mapping[k].is_matched /\ mapping[k].similarity_score = <<1, 1>>

\* C21: with "client_name" among the candidates, the reference key
\* "Client Name" is matched at the score 1.0, by the mapping of either class.
C21_SeparatorsSplit ==
    ClientNameOffered =>
        /\ Enhanced => ClientNameMatched(enhanced.field_mapping)
        /\ Advanced => ClientNameMatched(advanced.field_mapping)

\* The entries of a mapping made with a threshold are as the invariant of a
\* match result has them, one for each of the reference fields.
WellFormed(mapping, threshold) ==
    /\ Len(mapping) = Len(template_fields)
    /\ \A k \in 1..Len(mapping) :
          LET entry == mapping[k]
          IN  /\ entry.template_field = template_fields[k]
              /\ entry.is_matched <=> entry.filled_field # JLit("null")
              /\ entry.filled_field # JLit("null")
                    <=> Exceeds(entry.similarity_score, threshold)
              /\ ~entry.is_matched =>
                    entry.filled_field = JLit("null") /\ entry.similarity_score = <<0, 1>>

\* C22: in the mapping of either class there is exactly one entry for each
\* reference field; is_matched holds exactly if filled_field is not null,
\* which is exactly if similarity_score exceeds the threshold; an entry
\* that is not matched has filled_field null and similarity_score 0.
C22_MatchedIffCandidateIffAbove ==
    /\ Enhanced => WellFormed(enhanced.field_mapping, DetailedThreshold)
    /\ Advanced => WellFormed(advanced.field_mapping, FieldThreshold)

\* Both mappings are made; one reference field is matched and another has
\* a candidate that shares a word with it and is not matched.
C22_MatchedAndUnmatched ==
    /\ Enhanced /\ Advanced
    /\ \E j, k \in 1..Len(template_fields) :
          /\ enhanced.field_mapping[j].is_matched
          /\ advanced.field_mapping[j].is_matched
          /\ ~enhanced.field_mapping[k].is_matched
          /\ \E f \in 1..Len(filled_fields) :
                Greater(_calculate_similarity(MatchKey(template_fields[k]),
                                              MatchKey(filled_fields[f])), <<0, 1>>)

\* The orderings of a list.
Orderings(list) ==
    {[k \in 1..Len(list) |-> list[p[k]]] :
        p \in {q \in [1..Len(list) -> 1..Len(list)] :
                 \A j, k \in 1..Len(list) : j # k => q[j] # q[k]}}

\* C23: the mapping of either class is the mapping it makes for every
\* ordering of the candidates.
C23_CandidateOrderFree ==
    /\ Enhanced =>
          \A fields \in Orderings(filled_fields) :
              _create_detailed_mapping(template_fields, fields) = enhanced.field_mapping
    /\ Advanced =>
          \A fields \in Orderings(filled_fields) :
              _create_field_mapping(template_fields, fields) = advanced.field_mapping

\* The reference fields a mapping has matched.
Accepted(mapping) == {k \in 1..Len(mapping) : mapping[k].is_matched}

\* C24: a reference field matched at the threshold 0.7 is matched at the
\* threshold 0.6, so the mapping of _create_field_mapping accepts no more
\* matches than the mapping of _create_detailed_mapping for the same lists.
C24_ThresholdMonotone ==
    (Enhanced /\ Advanced) =>
        /\ Accepted(advanced.field_mapping) \subseteq Accepted(enhanced.field_mapping)
        /\ Cardinality(Accepted(advanced.field_mapping))
              <= Cardinality(Accepted(enhanced.field_mapping))
        /\ Cardinality(Accepted(enhanced.field_mapping)) = enhanced.successfully_mapped

\* Both mappings are made; one reference field is matched at both
\* thresholds and another at the lower one only.
C24_MatchedBetween ==
    /\ Enhanced /\ Advanced
    /\ Accepted(advanced.field_mapping) # {}
    /\ Accepted(enhanced.field_mapping) \ Accepted(advanced.field_mapping) # {}

\* _calculate_similarity has returned.
Calculated == score # <<>>

\* C25: _calculate_similarity of a key with itself is 1.0 if the key has a
\* token.
C25_SelfSimilarity ==
    (Calculated /\ str1 = str2 /\ Len(PySplit(str1)) >= 1) => score = <<1, 1>>

\* _calculate_similarity has returned for a key of two words, one word
\* twice, and itself.
C25_SelfOffered ==
    /\ Calculated /\ str1 = str2
    /\ Len(PySplit(str1)) = 2
    /\ Cardinality(Words(str1)) = 1

\* The keys made of the tokens of a key in every order, a blank between
\* them.
Shuffled(x) == {Joined(words, <<" ">>) : words \in Orderings(PySplit(x))}

\* C26: _calculate_similarity gives the same score whatever the order of
\* the tokens of either key and whichever of the two keys comes first, and
\* the score is at least 0 and at most 1.
C26_TokenOrderFree ==
    Calculated =>
        /\ _calculate_similarity(str2, str1) = score
        /\ 0 <= score[1] /\ score[1] <= score[2]
        /\ \A x \in Shuffled(str1) : \A y \in Shuffled(str2) :
              _calculate_similarity(x, y) = score

\* _calculate_similarity has returned for two keys of two words each that
\* share one word, which is the first word of one and the second of the
\* other: the score is neither 0 nor 1.
C26_SharedInAnotherOrder ==
    /\ Calculated
    /\ Len(PySplit(str1)) = 2 /\ Len(PySplit(str2)) = 2
    /\ PySplit(str1)[1] = PySplit(str2)[2]
    /\ PySplit(str1)[2] # PySplit(str2)[1]
    /\ score = <<1, 3>>

----------------------------------------------------------------------------
(* The second loop of restructure_sample_data and the validation pass       *)

\* sample_info of sample_id when the first loop is done with its group.
AfterFirstLoop(sample_id) == AfterRecord(sample_id, Len(GroupOf(sample_id)))

\* C27: in the second loop of restructure_sample_data a record of another
\* entity leaves every slot alone that the first loop filled from the
\* records of the entity itself.
C27_OwnValueKept ==
    (Returned /\ Standard) =>
        LET fields == SampleFields(SampleRecords)
            entity == Entities(fields)
        IN  \A e \in 1..Len(sample_ids) :
                LET own == AfterFirstLoop(sample_ids[e])
                IN  \A n \in 1..Len(fields) : \A slot \in SlotNames :
                        (own[slot] # NIL /\ entity[n] # sample_ids[e]) =>
                            SecondPass(own, fields, n)[slot]
                                = SecondPass(own, fields, n - 1)[slot]

\* C28: the validation pass removes no record: validate_field_value gives
\* every value NIL the confidence 0.5, and the validated list has the
\* records of the merged list, as many and in the same order.
C28_NothingDropped ==
    Returned =>
        /\ \A k \in 1..Len(all_fields) :
              Verdict(k).value = v_NIL => Verdict(k).confidence = 5
        /\ Len(output.extracted_fields) = Len(all_fields)
        /\ \A k \in 1..Len(output.extracted_fields) :
              \A name \in {k_key, k_type} :
                  Get(output.extracted_fields[k], name, JLit("null"))
                      = Get(all_fields[k], name, JLit("null"))

\* The validation pass has kept a record whose value became NIL between
\* two records whose values did not.
C28_NilKeptInPlace ==
    /\ Returned
    /\ \E k \in 2..(Len(all_fields) - 1) :
          /\ Verdict(k).value = v_NIL
          /\ Get(all_fields[k], k_value, JLit("null")) # NIL
          /\ Item(output.extracted_fields[k], k_value) = NIL
          /\ Item(output.extracted_fields[k - 1], k_value) # NIL
          /\ Item(output.extracted_fields[k + 1], k_value) # NIL

\* C29: in the second loop of restructure_sample_data a record with the key
\* end_date changes no slot but Composite or Collected End Date, and a
\* record with the key end_time no slot but Composite or Collected End Time.
C29_EndDateToEndDate ==
    (Returned /\ Standard) =>
        LET fields == SampleFields(SampleRecords)
        IN  \A e \in 1..Len(sample_ids) :
                LET own == AfterFirstLoop(sample_ids[e])
                IN  \A n \in 1..Len(fields) : \A slot \in SlotNames :
                        \/ SecondPass(own, fields, n)[slot]
                              = SecondPass(own, fields, n - 1)[slot]
                        \/ KeyOf(fields[n]) \notin {<<"e", "n", "d", "_", "d", "a", "t", "e">>, <<"e", "n", "d", "_", "t", "i", "m", "e">>}
                        \/ /\ KeyOf(fields[n]) = <<"e", "n", "d", "_", "d", "a", "t", "e">>
                           /\ slot = "Composite or Collected End Date"
                        \/ /\ KeyOf(fields[n]) = <<"e", "n", "d", "_", "t", "i", "m", "e">>
                           /\ slot = "Composite or Collected End Time"

----------------------------------------------------------------------------
(* The retry loop of analyze_with_ai_vision                                 *)

\* The body of the loop over the images stands behind the retry loop: at
\* the fences, in the cascade or at the records.
PastRetries == pc \notin {"images", "generate", "vision_done", "returned"}

\* C30: for each image the generator is called at most 3 times; no attempt
\* follows one that answered with more than 100 characters; a third
\* attempt that raises ends the pass for the image with no record added
\* and no stage called; and the cascade is given a response_text that is
\* not empty, once for each image.
C30_RetryLoop ==
    /\ [](attempt <= max_retries)
    /\ [](pc = "generate" =>
             attempt < max_retries /\ Len(response_text) <= QualityLength)
    /\ [][attempt' # attempt =>
             \/ pc = "images" /\ attempt' = 0
             \/ /\ pc = "generate"
                /\ attempt' = attempt + 1
                /\ attempt = 0 \/ Len(response_text) <= QualityLength]_vars
    /\ [][(GenerateRaises /\ attempt = max_retries - 1) =>
             /\ pc' = "images"
             /\ accs' = accs
             /\ tried' = <<>>
             /\ Len(log') = Len(log) + 1
             /\ log'[Len(log')].page = page
             /\ log'[Len(log')].tried = <<>>
             /\ log'[Len(log')].after = before]_vars
    /\ []((PastRetries \/ tried # <<>>) => response_text # <<>>)
    /\ [](\A k \in 1..Len(tried) : tried[k] = "direct" => k = 1)
    /\ [](\A k \in 1..Len(log) :
             /\ log[k].page = k
             /\ log[k].tried # <<>> => log[k].text # <<>>
             /\ \A j \in 1..Len(log[k].tried) : log[k].tried[j] = "direct" => j = 1)

\* The first image went through the cascade on a response of more than
\* 100 characters; the second one answered with a short text and then
\* raised at the third attempt, and was left without a record.
C30_ThirdAttemptRaised ==
    /\ pc = "images"
    /\ Len(log) = 2
    /\ Len(log[1].text) > QualityLength
    /\ log[1].tried # <<>>
    /\ Len(log[1].after.all_fields) > 0
    /\ attempt = max_retries
    /\ log[2].outcome = "raised"
    /\ log[2].text # <<>>
    /\ log[2].tried = <<>>
    /\ log[2].after = log[1].after
=============================================================================
